---------------------------- MODULE Spec2Model ----------------------------
(***************************************************************************)
(* State-machine model of the learning_mode_agent backend: the user        *)
(* directory, the email-verification and password-reset token ledgers, and *)
(* the session -> thread -> message conversation store, as driven by the   *)
(* HTTP handlers of app/routers.  Every request runs in its own database   *)
(* session; a handler that reads and later commits is split at the commit, *)
(* so that two requests interleave the way two database sessions do under  *)
(* READ COMMITTED.  Time is counted in minutes.                            *)
(***************************************************************************)
EXTENDS Integers, Sequences, FiniteSets, TLC

(* ------------------------------ bounds -------------------------------- *)
MaxUsers == 2
MaxVerificationTokens == 3
MaxResetTokens == 2
MaxTicks == 2
MaxBearers == 2
MaxSessions == 2
MaxThreads == 2
MaxMessages == 2
MaxChatMessages == 4
MaxContextLimit == 5

(* ----------------------- configuration (config.py) --------------------- *)
ACCESS_TOKEN_EXPIRE_MINUTES == 30
EMAIL_VERIFICATION_TOKEN_EXPIRE_HOURS == 24
PASSWORD_RESET_TOKEN_EXPIRE_HOURS == 1

(* The two concurrent requests (database sessions) the model interleaves. *)
Procs == {1, 2}
(* The single request stream of the sequential specifications. *)
SeqProcs == {1}

Usernames == {"alice", "bob"}
Emails == {"a@x", "b@x"}
Passwords == {"pw1", "pw2"}

(* A nullable column: NULL, or Some(v). *)
NULL == <<>>
Some(v) == <<v>>

(* A used_at that is set.  The code only ever tests used_at for NULL, so    *)
(* the model keeps that it is set and drops the instant.                    *)
UsedAt(t) == Some("set")

(* The clock advances by one lifetime of the tokens a specification is      *)
(* about, so that "exactly at expiry" and "past expiry" both occur.         *)
AccessLifetime == ACCESS_TOKEN_EXPIRE_MINUTES
VerificationLifetime == 60 * EMAIL_VERIFICATION_TOKEN_EXPIRE_HOURS
ResetLifetime == 60 * PASSWORD_RESET_TOKEN_EXPIRE_HOURS

VARIABLES
    users,                       \* table users: sequence, index = id
    email_verification_tokens,   \* table email_verification_tokens: set of rows
    password_reset_tokens,       \* table password_reset_tokens: set of rows
    vseq,                        \* verification tokens generated so far
    rseq,                        \* reset tokens generated so far
    v_redeemed,                  \* history: successful verify_email_token calls per token
    r_redeemed,                  \* history: successful reset_password calls per token
    EMAIL_VERIFICATION_REQUIRED, \* settings.EMAIL_VERIFICATION_REQUIRED
    now,                         \* datetime.now(timezone.utc), in minutes
    ticks,                       \* clock advances so far
    bearers,                     \* bearer tokens handed to clients by login
    sessions,                    \* table sessions: set of rows
    threads,                     \* table threads: set of rows
    messages,                    \* table messages: set of rows
    sseq,                        \* sessions.id sequence
    tseq,                        \* threads.id sequence
    mseq,                        \* messages.id sequence
    tclock,                      \* transactions begun that went on to insert a thread
    mclock,                      \* transactions begun that went on to insert a message
    proc,                        \* per request slot: position and locals
    resp                         \* the HTTP response the last step sent, if any

vars == <<users, email_verification_tokens, password_reset_tokens, vseq, rseq,
          v_redeemed, r_redeemed, EMAIL_VERIFICATION_REQUIRED, now, ticks,
          bearers, sessions, threads, messages, sseq, tseq, mseq, tclock, mclock,
          proc, resp>>

vLedger == <<email_verification_tokens, vseq, v_redeemed>>
rLedger == <<password_reset_tokens, rseq, r_redeemed>>
clock == <<EMAIL_VERIFICATION_REQUIRED, now, ticks>>
conv == <<sessions, threads, messages, sseq, tseq, mseq, tclock, mclock>>

Idle == [pc |-> "idle"]
NoResp == [op |-> "none", status |-> 0]

VerificationTokenIds == 1 .. MaxVerificationTokens
ResetTokenIds == 1 .. MaxResetTokens

(* -------------------- app/utils/security (not in src/) ----------------- *)
get_password_hash(password) == <<"hash", password>>

verify_password(password, hashed) == hashed = get_password_hash(password)

create_access_token(data, t) ==
    [sub |-> data.sub, user_id |-> data.user_id, email |-> data.email,
     exp |-> t + ACCESS_TOKEN_EXPIRE_MINUTES, signed |-> TRUE]

(* The user a bearer token resolves to, or 0 (401 Unauthorized). *)
get_current_user(token, tbl, t) ==
    IF ~token.signed THEN 0
    ELSE IF ~(t < token.exp) THEN 0
    ELSE IF token.user_id \in DOMAIN tbl THEN token.user_id
    ELSE 0

(* ----------------------------- helpers --------------------------------- *)
Respond(r) == resp' = r

Goto(p, locals) == proc' = [proc EXCEPT ![p] = locals]

InFlight(pcs) == Cardinality({q \in Procs : proc[q].pc \in pcs})

UserOut(tbl, uid) ==
    [id |-> uid, username |-> tbl[uid].username, email |-> tbl[uid].email,
     is_verified |-> tbl[uid].is_verified]

(* ------------------- user directory (user_service.py) ------------------ *)
UsersByUsername(tbl, username) == {i \in DOMAIN tbl : tbl[i].username = username}

UsersByEmail(tbl, email) == {i \in DOMAIN tbl : tbl[i].email = email}

(* scalar_one_or_none() of a select on a unique column: the id, or 0. *)
OneOrNone(ids) == IF ids = {} THEN 0 ELSE CHOOSE i \in ids : TRUE

(* A users table without the two unique constraints: no commit is refused. *)
UniqueViolationNever(tbl, username, email) == FALSE

(* The unique constraints on users.username and users.email, which make the *)
(* commit of register_user raise IntegrityError.                            *)
UniqueViolation(tbl, username, email) ==
    UsersByUsername(tbl, username) # {} \/ UsersByEmail(tbl, email) # {}

NewUser(username, email, password) ==
    [username |-> username, email |-> email,
     password |-> get_password_hash(password), is_verified |-> FALSE]

(* authenticate_user without its is_verified gate. *)
authenticate_user_ungated(tbl, required, username, password) ==
    LET uid == OneOrNone(UsersByUsername(tbl, username)) IN
    IF uid = 0 THEN 0
    ELSE IF ~verify_password(password, tbl[uid].password) THEN 0
    ELSE uid

(* authenticate_user: the id of the authenticated user, or 0 for            *)
(* InvalidCredentialsError.                                                 *)
authenticate_user(tbl, required, username, password) ==
    LET uid == OneOrNone(UsersByUsername(tbl, username)) IN
    IF uid = 0 THEN 0
    ELSE IF ~verify_password(password, tbl[uid].password) THEN 0
    ELSE IF required /\ ~tbl[uid].is_verified THEN 0
    ELSE uid

(* The message of the InvalidCredentialsError authenticate_user raises. *)
InvalidCredentialsError(tbl, required, username, password) ==
    LET uid == OneOrNone(UsersByUsername(tbl, username)) IN
    IF uid = 0 THEN "Incorrect username or password"
    ELSE IF ~verify_password(password, tbl[uid].password)
    THEN "Incorrect username or password"
    ELSE "Email not verified. Please check your email for verification link."

(* A login handler that hands the service's message on to the client. *)
login_unauthorized_verbatim(message) == [status |-> 401, detail |-> message]

(* The 401 of login: "except InvalidCredentialsError" drops the message of  *)
(* the exception and answers with a fixed detail.                            *)
login_unauthorized(message) ==
    [status |-> 401, detail |-> "Incorrect username or password"]

create_token_for_user(tbl, uid, t) ==
    create_access_token([sub |-> tbl[uid].username, user_id |-> uid,
                         email |-> tbl[uid].email], t)

(* ------------------ token ledgers: shared row shape -------------------- *)
TokenRow(tok, uid, t, hours) ==
    [token |-> tok, user_id |-> uid, expires_at |-> t + 60 * hours, used_at |-> NULL]

RowsOf(ledger, tok) == {r \in ledger : r.token = tok}

TheRow(rows) == CHOOSE r \in rows : TRUE

(* What a consumer saw of the token at its lookup (history, for the claims): *)
(* whether a row was stored, whether its used_at was NULL, and the time left *)
(* until expires_at (0: the lookup ran exactly at expires_at).               *)
TokenFacts(rows, t) ==
    IF rows = {} THEN [stored |-> FALSE, unused |-> FALSE, ttl |-> 0]
    ELSE [stored |-> TRUE, unused |-> TheRow(rows).used_at = NULL,
          ttl |-> TheRow(rows).expires_at - t]

(* A redemption that leaves used_at as it was. *)
MarkUsedLost(ledger, toks, t) == ledger

(* token.used_at = datetime.now(timezone.utc) on one row. *)
MarkUsed(ledger, toks, t) ==
    {IF r.token \in toks THEN [r EXCEPT !.used_at = UsedAt(t)] ELSE r : r \in ledger}

(* A verification that leaves is_verified as it was. *)
MarkVerifiedLost(tbl, uid) == tbl

(* user.is_verified = True *)
MarkVerified(tbl, uid) == [tbl EXCEPT ![uid].is_verified = TRUE]

(* A reset that leaves the password as it was. *)
SetPasswordLost(tbl, uid, new_password) == tbl

(* A reset that writes the new hash to every user. *)
SetPasswordOfAll(tbl, uid, new_password) ==
    [u \in DOMAIN tbl |-> [tbl[u] EXCEPT !.password = get_password_hash(new_password)]]

(* user.password = get_password_hash(new_password) *)
SetPassword(tbl, uid, new_password) ==
    [tbl EXCEPT ![uid].password = get_password_hash(new_password)]

(* A delete_expired_tokens run that also selects the rows expiring now. *)
ExpiredRowsInclusive(ledger, t) == {r \in ledger : r.expires_at <= t}

(* The rows a delete_expired_tokens run selects. *)
ExpiredRows(ledger, t) == {r \in ledger : r.expires_at < t}

(* The checks of verify_email_token on the row it selected. *)
verify_email_token_check(rows, t) ==
    IF rows = {} THEN "invalid"
    ELSE IF TheRow(rows).expires_at < t THEN "expired"
    ELSE IF TheRow(rows).used_at # NULL THEN "used"
    ELSE "ok"

(* verify_reset_token rejecting a token from the instant expires_at on. *)
verify_reset_token_strict(rows, t) ==
    IF rows = {} THEN "invalid"
    ELSE IF TheRow(rows).expires_at <= t THEN "expired"
    ELSE IF TheRow(rows).used_at # NULL THEN "used"
    ELSE "ok"

(* verify_reset_token: the outcome of its checks on the row it selected. *)
verify_reset_token(rows, t) ==
    IF rows = {} THEN "invalid"
    ELSE IF TheRow(rows).expires_at < t THEN "expired"
    ELSE IF TheRow(rows).used_at # NULL THEN "used"
    ELSE "ok"

(* The unused tokens generate_reset_token selects for invalidation. *)
UnusedTokensOf(ledger, uid) ==
    {r.token : r \in {x \in ledger : x.user_id = uid /\ x.used_at = NULL}}

(* ======================= POST /auth/register =========================== *)
(* register_user up to its commit: the two existence checks. *)
RegisterCheck(p, username, email, password) ==
    /\ proc[p].pc = "idle"
    /\ IF UsersByUsername(users, username) # {} \/ UsersByEmail(users, email) # {}
       THEN /\ Respond([op |-> "register", status |-> 400, username |-> username,
                        email |-> email, via |-> "check"])
            /\ UNCHANGED proc
       ELSE /\ Len(users) + InFlight({"reg_commit"}) < MaxUsers
            /\ vseq + InFlight({"reg_commit", "reg_token", "rs_token"}) < MaxVerificationTokens
            /\ Goto(p, [pc |-> "reg_commit", username |-> username,
                        email |-> email, password |-> password])
            /\ Respond(NoResp)
    /\ UNCHANGED <<users, vLedger, rLedger, clock, bearers, conv>>

(* The commit of register_user: insert, or IntegrityError -> 400. *)
RegisterCommit(p) ==
    /\ proc[p].pc = "reg_commit"
    /\ LET l == proc[p] IN
       IF UniqueViolation(users, l.username, l.email)
       THEN /\ Respond([op |-> "register", status |-> 400, username |-> l.username,
                        email |-> l.email, via |-> "integrity"])
            /\ Goto(p, Idle)
            /\ UNCHANGED users
       ELSE /\ users' = Append(users, NewUser(l.username, l.email, l.password))
            /\ IF EMAIL_VERIFICATION_REQUIRED
               THEN /\ Goto(p, [pc |-> "reg_token", user_id |-> Len(users) + 1])
                    /\ Respond(NoResp)
               ELSE /\ Goto(p, Idle)
                    /\ Respond([op |-> "register", status |-> 201,
                                username |-> l.username, email |-> l.email,
                                body |-> UserOut(users', Len(users) + 1),
                                token |-> 0, mailed |-> FALSE])
    /\ UNCHANGED <<vLedger, rLedger, clock, bearers, conv>>

(* A generate_verification_token that marks the user's earlier unused       *)
(* tokens used, as generate_reset_token does.                               *)
generate_verification_token_superseding(ledger, tok, uid, t) ==
    MarkUsed(ledger, UnusedTokensOf(ledger, uid), t) \cup
        {TokenRow(tok, uid, t, EMAIL_VERIFICATION_TOKEN_EXPIRE_HOURS)}

(* generate_verification_token: the ledger after db.add(token), commit. *)
generate_verification_token(ledger, tok, uid, t) ==
    ledger \cup {TokenRow(tok, uid, t, EMAIL_VERIFICATION_TOKEN_EXPIRE_HOURS)}

(* A register whose failed verification mail ends in its generic handler. *)
register_status_mail_fatal(mail_ok) == IF mail_ok THEN 201 ELSE 500

(* The status of register after the mail: "except EmailSendError" only logs. *)
register_status(mail_ok) == 201

(* generate_verification_token, send_verification_email, return user. *)
RegisterToken(p, mail_ok) ==
    /\ proc[p].pc = "reg_token"
    /\ LET uid == proc[p].user_id IN
       /\ email_verification_tokens' =
              generate_verification_token(email_verification_tokens, vseq + 1, uid, now)
       /\ vseq' = vseq + 1
       /\ Respond([op |-> "register", status |-> register_status(mail_ok),
                   username |-> users[uid].username, email |-> users[uid].email,
                   body |-> UserOut(users, uid), token |-> vseq + 1,
                   mailed |-> mail_ok])
    /\ Goto(p, Idle)
    /\ UNCHANGED <<users, v_redeemed, rLedger, clock, bearers, conv>>

(* generate_verification_token failing at its commit: rollback and re-raise, *)
(* which register's "except Exception" turns into 500.  The user that       *)
(* register_user committed before stays.                                    *)
RegisterTokenFails(p) ==
    /\ proc[p].pc = "reg_token"
    /\ LET uid == proc[p].user_id IN
       Respond([op |-> "register", status |-> 500,
                username |-> users[uid].username, email |-> users[uid].email])
    /\ Goto(p, Idle)
    /\ UNCHANGED <<users, vLedger, rLedger, clock, bearers, conv>>

(* ========================= POST /auth/login ============================ *)
Login(p, username, password) ==
    /\ proc[p].pc = "idle"
    /\ LET uid == authenticate_user(users, EMAIL_VERIFICATION_REQUIRED,
                                    username, password) IN
       IF uid = 0
       THEN /\ LET refusal == login_unauthorized(InvalidCredentialsError(
                                 users, EMAIL_VERIFICATION_REQUIRED, username, password)) IN
               Respond([op |-> "login", status |-> refusal.status,
                        username |-> username, password |-> password,
                        detail |-> refusal.detail])
            /\ UNCHANGED bearers
       ELSE LET token == create_token_for_user(users, uid, now) IN
            /\ Respond([op |-> "login", status |-> 200, username |-> username,
                        password |-> password, access_token |-> token,
                        token_type |-> "bearer"])
            /\ bearers' = IF Cardinality(bearers \cup {token}) <= MaxBearers
                          THEN bearers \cup {token} ELSE bearers
    /\ UNCHANGED <<users, vLedger, rLedger, clock, conv, proc>>

(* A bearer token no login issued: its signature does not verify. *)
ForgedToken ==
    [sub |-> "alice", user_id |-> 1, email |-> "a@x", exp |-> 0, signed |-> FALSE]

Presentable == bearers \cup {ForgedToken}

(* A request without Authorization header: there is no token to verify. *)
NoToken == [sub |-> "", user_id |-> 0, email |-> "", exp |-> 0, signed |-> FALSE]

(* The token of a login of alice one token lifetime ago: it has expired. *)
ExpiredToken == create_token_for_user(users, 1, now - ACCESS_TOKEN_EXPIRE_MINUTES)

(* What a client can send that the authentication gate must refuse. *)
Unverifiable == {NoToken, ForgedToken, ExpiredToken}

(* =========================== GET /auth/me ============================== *)
Me(p, token) ==
    /\ proc[p].pc = "idle"
    /\ LET uid == get_current_user(token, users, now) IN
       IF uid = 0
       THEN Respond([op |-> "me", status |-> 401, token |-> token])
       ELSE Respond([op |-> "me", status |-> 200, token |-> token,
                     body |-> UserOut(users, uid)])
    /\ UNCHANGED <<users, vLedger, rLedger, clock, bearers, conv, proc>>

(* ====================== GET /auth/verify-email ========================= *)
(* verify_email_token up to its commit: select, checks, select user. *)
VerifyEmailLookup(p, tok) ==
    /\ proc[p].pc = "idle"
    /\ LET rows == RowsOf(email_verification_tokens, tok)
           seen == TokenFacts(rows, now)
           outcome == verify_email_token_check(rows, now) IN
       IF outcome # "ok"
       THEN /\ Respond([op |-> "verify_email", status |-> 400, token |-> tok,
                        detail |-> outcome, seen |-> seen])
            /\ UNCHANGED proc
       ELSE /\ Goto(p, [pc |-> "ve_commit", token |-> tok,
                        user_id |-> TheRow(rows).user_id, seen |-> seen])
            /\ Respond(NoResp)
    /\ UNCHANGED <<users, vLedger, rLedger, clock, bearers, conv>>

(* The commit of verify_email_token: user.is_verified and token.used_at in  *)
(* one transaction; a row purged meanwhile makes the flush fail and the     *)
(* transaction roll back (VerificationTokenError -> 400).                   *)
VerifyEmailCommit(p) ==
    /\ proc[p].pc = "ve_commit"
    /\ LET l == proc[p] IN
       IF RowsOf(email_verification_tokens, l.token) = {}
       THEN /\ Respond([op |-> "verify_email", status |-> 400, token |-> l.token,
                        detail |-> "failed", seen |-> l.seen])
            /\ UNCHANGED <<users, vLedger>>
       ELSE /\ users' = MarkVerified(users, l.user_id)
            /\ email_verification_tokens' =
                   MarkUsed(email_verification_tokens, {l.token}, now)
            /\ v_redeemed' = [v_redeemed EXCEPT ![l.token] = @ + 1]
            /\ Respond([op |-> "verify_email", status |-> 200, token |-> l.token,
                        detail |-> "ok", seen |-> l.seen, user_id |-> l.user_id])
            /\ UNCHANGED vseq
    /\ Goto(p, Idle)
    /\ UNCHANGED <<rLedger, clock, bearers, conv>>

(* =================== POST /auth/resend-verification ==================== *)
(* get_user_by_email and the already-verified check.  The HTTPException(400)*)
(* raised inside the try block is caught by its "except Exception" -> 500.  *)
ResendLookup(p, email) ==
    /\ proc[p].pc = "idle"
    /\ LET uid == OneOrNone(UsersByEmail(users, email)) IN
       IF uid = 0
       THEN /\ Respond([op |-> "resend_verification", status |-> 200,
                        email |-> email, token |-> 0])
            /\ UNCHANGED proc
       ELSE IF users[uid].is_verified
       THEN /\ Respond([op |-> "resend_verification", status |-> 500,
                        email |-> email, token |-> 0])
            /\ UNCHANGED proc
       ELSE /\ vseq + InFlight({"reg_commit", "reg_token", "rs_token"}) < MaxVerificationTokens
            /\ Goto(p, [pc |-> "rs_token", user_id |-> uid, email |-> email])
            /\ Respond(NoResp)
    /\ UNCHANGED <<users, vLedger, rLedger, clock, bearers, conv>>

(* generate_verification_token, then send_verification_email. *)
ResendToken(p, mail_ok) ==
    /\ proc[p].pc = "rs_token"
    /\ LET l == proc[p] IN
       /\ email_verification_tokens' =
              generate_verification_token(email_verification_tokens, vseq + 1,
                                          l.user_id, now)
       /\ vseq' = vseq + 1
       /\ Respond([op |-> "resend_verification",
                   status |-> IF mail_ok THEN 200 ELSE 500,
                   email |-> l.email, token |-> vseq + 1])
    /\ Goto(p, Idle)
    /\ UNCHANGED <<users, v_redeemed, rLedger, clock, bearers, conv>>

(* EmailService.delete_expired_tokens (maintenance job). *)
PurgeVerificationTokens(p) ==
    /\ proc[p].pc = "idle"
    /\ ExpiredRows(email_verification_tokens, now) # {}
    /\ email_verification_tokens' =
           email_verification_tokens \ ExpiredRows(email_verification_tokens, now)
    /\ Respond(NoResp)
    /\ UNCHANGED <<users, vseq, v_redeemed, rLedger, clock, bearers, conv, proc>>

(* ===================== POST /auth/forgot-password ====================== *)
(* request_password_reset: find the user; generate_reset_token up to its    *)
(* commit: select the user's unused tokens.                                 *)
ForgotLookup(p, email) ==
    /\ proc[p].pc = "idle"
    /\ LET uid == OneOrNone(UsersByEmail(users, email)) IN
       IF uid = 0
       THEN /\ Respond([op |-> "forgot_password", status |-> 200,
                        email |-> email, token |-> 0])
            /\ UNCHANGED proc
       ELSE /\ rseq + InFlight({"fp_commit"}) < MaxResetTokens
            /\ Goto(p, [pc |-> "fp_commit", user_id |-> uid, email |-> email,
                        existing |-> UnusedTokensOf(password_reset_tokens, uid)])
            /\ Respond(NoResp)
    /\ UNCHANGED <<users, vLedger, rLedger, clock, bearers, conv>>

(* The commit of generate_reset_token (used_at on the selected rows, insert *)
(* of the new row), then send_password_reset_email.  A selected row purged  *)
(* meanwhile fails the flush: rollback, 500.  A mailer failure is a 500 too.*)
ForgotCommit(p, mail_ok) ==
    /\ proc[p].pc = "fp_commit"
    /\ LET l == proc[p] IN
       IF \E t \in l.existing : RowsOf(password_reset_tokens, t) = {}
       THEN /\ Respond([op |-> "forgot_password", status |-> 500,
                        email |-> l.email, token |-> 0])
            /\ UNCHANGED rLedger
       ELSE /\ password_reset_tokens' =
                   MarkUsed(password_reset_tokens, l.existing, now) \cup
                   {TokenRow(rseq + 1, l.user_id, now, PASSWORD_RESET_TOKEN_EXPIRE_HOURS)}
            /\ rseq' = rseq + 1
            /\ Respond([op |-> "forgot_password",
                        status |-> IF mail_ok THEN 200 ELSE 500,
                        email |-> l.email, token |-> rseq + 1])
            /\ UNCHANGED r_redeemed
    /\ Goto(p, Idle)
    /\ UNCHANGED <<users, vLedger, clock, bearers, conv>>

(* ==================== GET /auth/verify-reset-token ===================== *)
(* The route answering "valid" for a token that was already used. *)
verify_reset_token_status_ignoring_use(outcome) ==
    IF outcome \in {"ok", "used"} THEN 200 ELSE 400

(* The route: {"valid": True, ...} when the service returns the token, 400  *)
(* on InvalidResetTokenError.                                               *)
verify_reset_token_status(outcome) == IF outcome = "ok" THEN 200 ELSE 400

VerifyResetToken(p, tok) ==
    /\ proc[p].pc = "idle"
    /\ LET rows == RowsOf(password_reset_tokens, tok)
           outcome == verify_reset_token(rows, now) IN
       Respond([op |-> "verify_reset_token",
                status |-> verify_reset_token_status(outcome), token |-> tok,
                detail |-> outcome,
                seen |-> TokenFacts(rows, now)])
    /\ UNCHANGED <<users, vLedger, rLedger, clock, bearers, conv, proc>>

(* ====================== POST /auth/reset-password ====================== *)
(* reset_password up to its commit: verify_reset_token, select user. *)
ResetLookup(p, tok, new_password) ==
    /\ proc[p].pc = "idle"
    /\ LET rows == RowsOf(password_reset_tokens, tok)
           seen == TokenFacts(rows, now)
           outcome == verify_reset_token(rows, now) IN
       IF outcome # "ok"
       THEN /\ Respond([op |-> "reset_password", status |-> 400, token |-> tok,
                        detail |-> outcome, seen |-> seen])
            /\ UNCHANGED proc
       ELSE /\ Goto(p, [pc |-> "rp_commit", token |-> tok,
                        user_id |-> TheRow(rows).user_id,
                        new_password |-> new_password, seen |-> seen])
            /\ Respond(NoResp)
    /\ UNCHANGED <<users, vLedger, rLedger, clock, bearers, conv>>

(* The commit of reset_password: user.password and token.used_at in one     *)
(* transaction; a row purged meanwhile fails the flush: rollback,           *)
(* PasswordResetError -> 500.                                               *)
ResetCommit(p) ==
    /\ proc[p].pc = "rp_commit"
    /\ LET l == proc[p] IN
       IF RowsOf(password_reset_tokens, l.token) = {}
       THEN /\ Respond([op |-> "reset_password", status |-> 500, token |-> l.token,
                        detail |-> "failed", seen |-> l.seen])
            /\ UNCHANGED <<users, rLedger>>
       ELSE /\ users' = SetPassword(users, l.user_id, l.new_password)
            /\ password_reset_tokens' =
                   MarkUsed(password_reset_tokens, {l.token}, now)
            /\ r_redeemed' = [r_redeemed EXCEPT ![l.token] = @ + 1]
            /\ Respond([op |-> "reset_password", status |-> 200, token |-> l.token,
                        detail |-> "ok", seen |-> l.seen, user_id |-> l.user_id,
                        new_password |-> l.new_password,
                        old_hash |-> users[l.user_id].password])
            /\ UNCHANGED rseq
    /\ Goto(p, Idle)
    /\ UNCHANGED <<vLedger, clock, bearers, conv>>

(* PasswordResetService.delete_expired_tokens (maintenance job). *)
PurgeResetTokens(p) ==
    /\ proc[p].pc = "idle"
    /\ ExpiredRows(password_reset_tokens, now) # {}
    /\ password_reset_tokens' =
           password_reset_tokens \ ExpiredRows(password_reset_tokens, now)
    /\ Respond(NoResp)
    /\ UNCHANGED <<users, vLedger, rseq, r_redeemed, clock, bearers, conv, proc>>

(* ================= conversation store: shared helpers ================== *)
SessionIds == 1 .. MaxSessions
ThreadIds == 1 .. MaxThreads

(* A handler that takes the user from the token's claims, unverified. *)
ActingOnClaims(token) == token.user_id

(* The user a request acts as: get_current_user on its bearer token. *)
Acting(token) == get_current_user(token, users, now)

SessionRows(sid) == {x \in sessions : x.id = sid}

ThreadRows(tid) == {x \in threads : x.id = tid}

MessagesOf(tid) == {m \in messages : m.thread_id = tid}

(* ORDER BY created_at ASC / DESC of a select: the rows as a sequence. *)
RECURSIVE OrderByCreatedAt(_)
OrderByCreatedAt(rows) ==
    IF rows = {} THEN <<>>
    ELSE LET first == CHOOSE x \in rows : \A y \in rows : x.created_at <= y.created_at
         IN <<first>> \o OrderByCreatedAt(rows \ {first})

RECURSIVE OrderByCreatedAtDesc(_)
OrderByCreatedAtDesc(rows) ==
    IF rows = {} THEN <<>>
    ELSE LET first == CHOOSE x \in rows : \A y \in rows : x.created_at >= y.created_at
         IN <<first>> \o OrderByCreatedAtDesc(rows \ {first})

(* list_sessions_for_user with its ORDER BY turned round. *)
list_sessions_for_user_asc(uid) == OrderByCreatedAt({x \in sessions : x.user_id = uid})

list_sessions_for_user(uid) == OrderByCreatedAtDesc({x \in sessions : x.user_id = uid})

list_threads_for_session(sid) == OrderByCreatedAtDesc({x \in threads : x.session_id = sid})

(* get_messages_for_thread returning the newest message only. *)
get_messages_for_thread_newest(rows) ==
    SubSeq(OrderByCreatedAtDesc(rows), 1, IF rows = {} THEN 0 ELSE 1)

(* get_messages_for_thread with its ORDER BY turned round. *)
get_messages_for_thread_desc(rows) == OrderByCreatedAtDesc(rows)

(* get_messages_for_thread, on the thread's rows: oldest first. *)
get_messages_for_thread(rows) == OrderByCreatedAt(rows)

(* session.user_id of the stored session, 0 when there is none. *)
OwnerOfSession(sid) ==
    IF SessionRows(sid) = {} THEN 0 ELSE (CHOOSE x \in SessionRows(sid) : TRUE).user_id

(* thread.session.user_id of the stored thread, 0 when there is none. *)
OwnerOfThread(tid) ==
    IF ThreadRows(tid) = {} THEN 0
    ELSE OwnerOfSession((CHOOSE x \in ThreadRows(tid) : TRUE).session_id)

(* The response of a conversation endpoint: the acting user, the owner of   *)
(* the resource the path names (0: none stored) and the owners of the rows  *)
(* the request returned, changed or deleted.                                *)
ConvResp(op, status, uid, owner, owners) ==
    [op |-> op, status |-> status, user |-> uid, owner |-> owner, owners |-> owners]

Unauthorized(op) == ConvResp(op, 401, 0, 0, {})

(* get_session_by_id without its ownership comparison. *)
get_session_by_id_any_owner(sid, uid) ==
    IF SessionRows(sid) = {} THEN 404 ELSE 200

(* get_session_by_id(session_id, user_id): 200, 404 or 403. *)
get_session_by_id(sid, uid) ==
    IF SessionRows(sid) = {} THEN 404
    ELSE IF OwnerOfSession(sid) # uid THEN 403
    ELSE 200

(* verify_thread_ownership without its ownership comparison. *)
verify_thread_ownership_any_owner(tid, uid) ==
    IF ThreadRows(tid) = {} THEN 404 ELSE 200

(* verify_thread_ownership(thread_id, user_id): 200, 404 or 403. *)
verify_thread_ownership(tid, uid) ==
    IF ThreadRows(tid) = {} THEN 404
    ELSE IF OwnerOfThread(tid) # uid THEN 403
    ELSE 200

(* DELETE of a session row: ON DELETE CASCADE removes its threads and       *)
(* their messages.                                                          *)
ThreadsOfSession(sid) == {x.id : x \in {y \in threads : y.session_id = sid}}

CascadeSession(sid) ==
    /\ sessions' = sessions \ SessionRows(sid)
    /\ threads' = {x \in threads : x.session_id # sid}
    /\ messages' = {m \in messages : m.thread_id \notin ThreadsOfSession(sid)}

(* DELETE of a thread row: ON DELETE CASCADE removes its messages. *)
CascadeThread(tid) ==
    /\ threads' = threads \ ThreadRows(tid)
    /\ messages' = messages \ MessagesOf(tid)
    /\ UNCHANGED sessions

(* The foreign key threads.session_id -> sessions.id at an INSERT. *)
SessionFkHolds(sid) == SessionRows(sid) # {}

(* A messages table without the foreign key to threads. *)
ThreadFkAbsent(tid) == TRUE

(* The foreign key messages.thread_id -> threads.id at an INSERT. *)
ThreadFkHolds(tid) == ThreadRows(tid) # {}

auth == <<users, vLedger, rLedger, clock, bearers>>

(* ========================= /sessions endpoints ========================= *)
(* create_session: insert and commit.  created_at is the server's now(),    *)
(* the start of the inserting transaction; the request begins and commits   *)
(* in this one step, so the transactions of session inserts begin in the    *)
(* order of their inserts.                                                  *)
CreateSession(p, token, agent_type) ==
    /\ proc[p].pc = "idle"
    /\ LET uid == Acting(token) IN
       IF uid = 0
       THEN /\ Respond(Unauthorized("create_session"))
            /\ UNCHANGED <<sessions, sseq>>
       ELSE /\ sseq < MaxSessions
            /\ sessions' = sessions \cup
                   {[id |-> sseq + 1, user_id |-> uid, agent_type |-> agent_type,
                     created_at |-> sseq + 1]}
            /\ sseq' = sseq + 1
            /\ Respond(ConvResp("create_session", 201, uid, uid, {uid}))
    /\ UNCHANGED <<auth, threads, messages, tseq, mseq, tclock, mclock, proc>>

ListSessions(p, token) ==
    /\ proc[p].pc = "idle"
    /\ LET uid == Acting(token) IN
       IF uid = 0
       THEN Respond(Unauthorized("list_sessions"))
       ELSE Respond(ConvResp("list_sessions", 200, uid, uid,
                             {x.user_id : x \in {y \in sessions : y.user_id = uid}})
                    @@ [items |-> list_sessions_for_user(uid)])
    /\ UNCHANGED <<auth, conv, proc>>

GetSession(p, token, sid) ==
    /\ proc[p].pc = "idle"
    /\ LET uid == Acting(token)
           st == get_session_by_id(sid, uid) IN
       IF uid = 0
       THEN Respond(Unauthorized("get_session"))
       ELSE Respond(ConvResp("get_session", st, uid, OwnerOfSession(sid),
                             IF st = 200 THEN {OwnerOfSession(sid)} ELSE {}))
    /\ UNCHANGED <<auth, conv, proc>>

(* delete_session up to its commit: get_session_by_id. *)
DeleteSessionLookup(p, token, sid) ==
    /\ proc[p].pc = "idle"
    /\ LET uid == Acting(token)
           st == get_session_by_id(sid, uid) IN
       IF uid = 0
       THEN Respond(Unauthorized("delete_session")) /\ UNCHANGED proc
       ELSE IF st # 200
       THEN /\ Respond(ConvResp("delete_session", st, uid, OwnerOfSession(sid), {}))
            /\ UNCHANGED proc
       ELSE /\ Goto(p, [pc |-> "ds_commit", user |-> uid, id |-> sid])
            /\ Respond(NoResp)
    /\ UNCHANGED <<auth, conv>>

(* db.delete(session); commit.  A row deleted meanwhile fails the flush:    *)
(* rollback, 500.                                                           *)
DeleteSessionCommit(p) ==
    /\ proc[p].pc = "ds_commit"
    /\ LET l == proc[p] IN
       IF SessionRows(l.id) = {}
       THEN /\ Respond(ConvResp("delete_session", 500, l.user, 0, {}))
            /\ UNCHANGED <<sessions, threads, messages>>
       ELSE /\ CascadeSession(l.id)
            /\ Respond(ConvResp("delete_session", 204, l.user, OwnerOfSession(l.id),
                                {OwnerOfSession(l.id)}))
    /\ Goto(p, Idle)
    /\ UNCHANGED <<auth, sseq, tseq, mseq, tclock, mclock>>

(* update_session_agent_type up to its commit: get_session_by_id. *)
UpdateSessionLookup(p, token, sid, agent_type) ==
    /\ proc[p].pc = "idle"
    /\ LET uid == Acting(token)
           st == get_session_by_id(sid, uid) IN
       IF uid = 0
       THEN Respond(Unauthorized("update_session")) /\ UNCHANGED proc
       ELSE IF st # 200
       THEN /\ Respond(ConvResp("update_session", st, uid, OwnerOfSession(sid), {}))
            /\ UNCHANGED proc
       ELSE /\ Goto(p, [pc |-> "us_commit", user |-> uid, id |-> sid,
                        agent_type |-> agent_type])
            /\ Respond(NoResp)
    /\ UNCHANGED <<auth, conv>>

UpdateSessionCommit(p) ==
    /\ proc[p].pc = "us_commit"
    /\ LET l == proc[p] IN
       IF SessionRows(l.id) = {}
       THEN /\ Respond(ConvResp("update_session", 500, l.user, 0, {}))
            /\ UNCHANGED sessions
       ELSE /\ sessions' = {IF x.id = l.id THEN [x EXCEPT !.agent_type = l.agent_type]
                            ELSE x : x \in sessions}
            /\ Respond(ConvResp("update_session", 200, l.user, OwnerOfSession(l.id),
                                {OwnerOfSession(l.id)}))
    /\ Goto(p, Idle)
    /\ UNCHANGED <<auth, threads, messages, sseq, tseq, mseq, tclock, mclock>>

(* ========================== /threads endpoints ========================= *)
(* create_thread up to the insert: get_session_by_id(session_id, user).     *)
(* The select begins the transaction whose start the insert stores as       *)
(* created_at (server_default now()).                                       *)
CreateThreadLookup(p, token, sid, title) ==
    /\ proc[p].pc = "idle"
    /\ LET uid == Acting(token)
           st == get_session_by_id(sid, uid) IN
       IF uid = 0
       THEN Respond(Unauthorized("create_thread")) /\ UNCHANGED <<proc, tclock>>
       ELSE IF st # 200
       THEN /\ Respond(ConvResp("create_thread", st, uid, OwnerOfSession(sid), {}))
            /\ UNCHANGED <<proc, tclock>>
       ELSE /\ tseq + InFlight({"ct_commit"}) < MaxThreads
            /\ Goto(p, [pc |-> "ct_commit", user |-> uid, session_id |-> sid,
                        title |-> title, began |-> tclock + 1])
            /\ tclock' = tclock + 1
            /\ Respond(NoResp)
    /\ UNCHANGED <<auth, sessions, threads, messages, sseq, tseq, mseq, mclock>>

(* ThreadService.create_thread: insert and commit; a session deleted        *)
(* meanwhile violates the foreign key: IntegrityError, rollback, 500.       *)
CreateThreadCommit(p) ==
    /\ proc[p].pc = "ct_commit"
    /\ LET l == proc[p] IN
       IF ~SessionFkHolds(l.session_id)
       THEN /\ Respond(ConvResp("create_thread", 500, l.user, 0, {}))
            /\ UNCHANGED <<threads, tseq>>
       ELSE /\ threads' = threads \cup
                   {[id |-> tseq + 1, session_id |-> l.session_id, title |-> l.title,
                     created_at |-> l.began]}
            /\ tseq' = tseq + 1
            /\ Respond(ConvResp("create_thread", 201, l.user,
                                OwnerOfSession(l.session_id),
                                {OwnerOfSession(l.session_id)}))
    /\ Goto(p, Idle)
    /\ UNCHANGED <<auth, sessions, messages, sseq, mseq, tclock, mclock>>

ListThreads(p, token, sid) ==
    /\ proc[p].pc = "idle"
    /\ LET uid == Acting(token)
           st == get_session_by_id(sid, uid) IN
       IF uid = 0
       THEN Respond(Unauthorized("list_threads"))
       ELSE Respond(ConvResp("list_threads", st, uid, OwnerOfSession(sid),
                IF st = 200
                THEN {OwnerOfThread(x.id) : x \in {y \in threads : y.session_id = sid}}
                ELSE {})
                @@ [items |-> IF st = 200 THEN list_threads_for_session(sid) ELSE <<>>])
    /\ UNCHANGED <<auth, conv, proc>>

GetThread(p, token, tid) ==
    /\ proc[p].pc = "idle"
    /\ LET uid == Acting(token)
           st == verify_thread_ownership(tid, uid) IN
       IF uid = 0
       THEN Respond(Unauthorized("get_thread"))
       ELSE Respond(ConvResp("get_thread", st, uid, OwnerOfThread(tid),
                             IF st = 200 THEN {OwnerOfThread(tid)} ELSE {}))
    /\ UNCHANGED <<auth, conv, proc>>

(* update_thread up to update_thread_title: verify_thread_ownership. *)
UpdateThreadLookup(p, token, tid, title) ==
    /\ proc[p].pc = "idle"
    /\ LET uid == Acting(token)
           st == verify_thread_ownership(tid, uid) IN
       IF uid = 0
       THEN Respond(Unauthorized("update_thread")) /\ UNCHANGED proc
       ELSE IF st # 200
       THEN /\ Respond(ConvResp("update_thread", st, uid, OwnerOfThread(tid), {}))
            /\ UNCHANGED proc
       ELSE /\ Goto(p, [pc |-> "ut_commit", user |-> uid, id |-> tid, title |-> title])
            /\ Respond(NoResp)
    /\ UNCHANGED <<auth, conv>>

(* update_thread_title: get_thread_by_id (ThreadNotFoundError -> 404), set  *)
(* the title, commit.                                                       *)
UpdateThreadCommit(p) ==
    /\ proc[p].pc = "ut_commit"
    /\ LET l == proc[p] IN
       IF ThreadRows(l.id) = {}
       THEN /\ Respond(ConvResp("update_thread", 404, l.user, 0, {}))
            /\ UNCHANGED threads
       ELSE /\ threads' = {IF x.id = l.id THEN [x EXCEPT !.title = l.title] ELSE x
                           : x \in threads}
            /\ Respond(ConvResp("update_thread", 200, l.user, OwnerOfThread(l.id),
                                {OwnerOfThread(l.id)}))
    /\ Goto(p, Idle)
    /\ UNCHANGED <<auth, sessions, messages, sseq, tseq, mseq, tclock, mclock>>

(* delete_thread up to ThreadService.delete_thread: verify_thread_ownership. *)
DeleteThreadLookup(p, token, tid) ==
    /\ proc[p].pc = "idle"
    /\ LET uid == Acting(token)
           st == verify_thread_ownership(tid, uid) IN
       IF uid = 0
       THEN Respond(Unauthorized("delete_thread")) /\ UNCHANGED proc
       ELSE IF st # 200
       THEN /\ Respond(ConvResp("delete_thread", st, uid, OwnerOfThread(tid), {}))
            /\ UNCHANGED proc
       ELSE /\ Goto(p, [pc |-> "dt_commit", user |-> uid, id |-> tid])
            /\ Respond(NoResp)
    /\ UNCHANGED <<auth, conv>>

(* ThreadService.delete_thread: get_thread_by_id (ThreadNotFoundError ->   *)
(* 404), db.delete(thread), commit.                                         *)
DeleteThreadCommit(p) ==
    /\ proc[p].pc = "dt_commit"
    /\ LET l == proc[p] IN
       IF ThreadRows(l.id) = {}
       THEN /\ Respond(ConvResp("delete_thread", 404, l.user, 0, {}))
            /\ UNCHANGED <<sessions, threads, messages>>
       ELSE /\ CascadeThread(l.id)
            /\ Respond(ConvResp("delete_thread", 204, l.user, OwnerOfThread(l.id),
                                {OwnerOfThread(l.id)}))
    /\ Goto(p, Idle)
    /\ UNCHANGED <<auth, sseq, tseq, mseq, tclock, mclock>>

(* ========================= /messages endpoints ========================= *)
(* Message(...): created_at is the server's now(), the start of the         *)
(* transaction that inserts the row.                                        *)
NewMessage(tid, role, content, at) ==
    [id |-> mseq + 1, thread_id |-> tid, role |-> role, content |-> content,
     created_at |-> at]

(* An add that is never committed: the row is gone at the end of the        *)
(* request.                                                                 *)
add_message_uncommitted(rows, message) == rows

(* An add_message that stores every message with role "system". *)
add_message_as_system(rows, message) == rows \cup {[message EXCEPT !.role = "system"]}

(* add_message: db.add(message), commit, refresh. *)
add_message(rows, message) == rows \cup {message}

(* send_message steps 1 and 2: get_thread_by_id(load_session), ownership.   *)
(* The select begins the request's first transaction.  cap bounds the       *)
(* messages a specification stores.                                         *)
SendBegin(p, token, tid, cap) ==
    /\ proc[p].pc = "idle"
    /\ LET uid == Acting(token)
           st == verify_thread_ownership(tid, uid) IN
       IF uid = 0
       THEN Respond(Unauthorized("send_message")) /\ UNCHANGED <<proc, mclock>>
       ELSE IF st # 200
       THEN /\ Respond(ConvResp("send_message", st, uid, OwnerOfThread(tid), {}))
            /\ UNCHANGED <<proc, mclock>>
       ELSE /\ mseq + 2 * (InFlight({"sm_user"}) + 1) + InFlight({"sm_title", "sm_reply"})
                   <= cap
            /\ Goto(p, [pc |-> "sm_user", user |-> uid, id |-> tid,
                        title |-> (CHOOSE x \in ThreadRows(tid) : TRUE).title,
                        began |-> mclock + 1,
                        held |-> Cardinality(MessagesOf(tid))])
            /\ mclock' = mclock + 1
            /\ Respond(NoResp)
    /\ UNCHANGED <<auth, sessions, threads, messages, sseq, tseq, mseq, tclock>>

(* Step 3: add_message(role = "user"): insert, commit, refresh; the refresh *)
(* begins the next transaction.  A thread deleted meanwhile violates the    *)
(* foreign key: MessageCreationError -> 500.                                *)
SendUserMessage(p) ==
    /\ proc[p].pc = "sm_user"
    /\ LET l == proc[p] IN
       IF ~ThreadFkHolds(l.id)
       THEN /\ Respond(ConvResp("send_message", 500, l.user, 0, {}))
            /\ Goto(p, Idle)
            /\ UNCHANGED <<messages, mseq, mclock>>
       ELSE /\ messages' = add_message(messages,
                                       NewMessage(l.id, "user", "question", l.began))
            /\ mseq' = mseq + 1
            /\ mclock' = mclock + 1
            /\ Goto(p, [pc |-> "sm_title", user |-> l.user, id |-> l.id,
                        title |-> l.title, began |-> mclock + 1, held |-> l.held,
                        user_msg |-> mseq + 1])
            /\ Respond(NoResp)
    /\ UNCHANGED <<auth, sessions, threads, sseq, tseq, tclock>>

(* generate_thread_name letting the failure of its LLM call out. *)
generate_thread_name_raising(named) == IF named THEN "generated" ELSE "none"

(* generate_thread_name: the name its LLM call returns; when the call       *)
(* fails, the except branch returns the first five words of the message or  *)
(* "New Conversation".                                                      *)
generate_thread_name(named) == IF named THEN "generated" ELSE "fallback"

(* Steps 4 and 4.5: the history for the LLM; on the first message of a      *)
(* thread loaded without title, generate_thread_name (which answers with a  *)
(* fallback name when its LLM call fails) and update_thread_title, whose    *)
(* ThreadNotFoundError is swallowed like any exception of the naming ("none" *)
(* stands for no name returned); its commit and refresh begin the next      *)
(* transaction.                                                             *)
SendTitle(p, named) ==
    /\ proc[p].pc = "sm_title"
    /\ LET l == proc[p]
           history == get_messages_for_thread(MessagesOf(l.id))
           thread_name == generate_thread_name(named) IN
       IF Len(history) = 1 /\ l.title = NULL /\ ThreadRows(l.id) # {}
          /\ thread_name # "none"
       THEN /\ threads' = {IF x.id = l.id THEN [x EXCEPT !.title = Some(thread_name)]
                           ELSE x : x \in threads}
            /\ mclock' = mclock + 1
            /\ Goto(p, [pc |-> "sm_reply", user |-> l.user, id |-> l.id,
                        title |-> l.title, began |-> mclock + 1, held |-> l.held,
                        user_msg |-> l.user_msg, history |-> history,
                        naming |-> thread_name])
       ELSE /\ UNCHANGED <<threads, mclock>>
            /\ Goto(p, [pc |-> "sm_reply", user |-> l.user, id |-> l.id,
                        title |-> l.title, began |-> l.began, held |-> l.held,
                        user_msg |-> l.user_msg, history |-> history,
                        naming |-> "none"])
    /\ Respond(NoResp)
    /\ UNCHANGED <<auth, sessions, messages, sseq, tseq, mseq, tclock>>

(* Steps 5 to 7: Runner.run on the history (failure -> 500),                *)
(* add_message(role = "assistant") (foreign key violation -> 500), the      *)
(* history returned.                                                        *)
SendReply(p, llm_ok) ==
    /\ proc[p].pc = "sm_reply"
    /\ LET l == proc[p]
           reply == NewMessage(l.id, "assistant", "answer", l.began) IN
       IF ~llm_ok \/ ~ThreadFkHolds(l.id)
       THEN /\ Respond(ConvResp("send_message", 500, l.user, OwnerOfThread(l.id), {}))
            /\ UNCHANGED <<messages, mseq>>
       ELSE /\ messages' = add_message(messages, reply)
            /\ mseq' = mseq + 1
            /\ Respond(ConvResp("send_message", 200, l.user, OwnerOfThread(l.id),
                                {OwnerOfThread(l.id)})
                       @@ [history |-> get_messages_for_thread(
                                           {m \in messages' : m.thread_id = l.id}),
                           sent |-> l.history, held |-> l.held, naming |-> l.naming,
                           user_msg |-> l.user_msg, reply |-> reply.id])
    /\ Goto(p, Idle)
    /\ UNCHANGED <<auth, sessions, threads, sseq, tseq, tclock, mclock>>

(* get_thread_history: get_thread_by_id (404), then the thread's messages;  *)
(* the handler makes no ownership check.                                    *)
GetThreadHistory(p, token, tid) ==
    /\ proc[p].pc = "idle"
    /\ LET uid == Acting(token) IN
       IF uid = 0
       THEN Respond(Unauthorized("get_thread_history"))
       ELSE IF ThreadRows(tid) = {}
       THEN Respond(ConvResp("get_thread_history", 404, uid, 0, {}))
       ELSE Respond(ConvResp("get_thread_history", 200, uid, OwnerOfThread(tid),
                             {OwnerOfThread(m.thread_id) : m \in MessagesOf(tid)})
                    @@ [history |-> get_messages_for_thread(MessagesOf(tid))])
    /\ UNCHANGED <<auth, conv, proc>>

(* Python's seq[start:] for a start that may be negative: a negative start  *)
(* counts from the end and is clamped to the beginning; -0 is 0.            *)
SliceFrom(seq, start) ==
    LET n == Len(seq)
        from == IF start < 0 THEN (IF n + start < 0 THEN 0 ELSE n + start)
                ELSE (IF start > n THEN n ELSE start) IN
    SubSeq(seq, from + 1, n)

(* MessageService.get_conversation_context(thread_id, limit) on the rows of *)
(* get_messages_for_thread: messages[-limit:] when a limit is given and     *)
(* there are more messages than that, then the (role, content) pairs.       *)
get_conversation_context(history, limit) ==
    LET kept == IF limit # NULL /\ Len(history) > limit[1]
                THEN SliceFrom(history, 0 - limit[1])
                ELSE history IN
    [i \in 1 .. Len(kept) |-> [role |-> kept[i].role, content |-> kept[i].content]]

(* A call of get_conversation_context by a caller of the service. *)
ConversationContext(p, tid, limit) ==
    /\ proc[p].pc = "idle"
    /\ LET history == get_messages_for_thread(MessagesOf(tid)) IN
       Respond([op |-> "get_conversation_context", status |-> 200, thread |-> tid,
                limit |-> limit, rows |-> history,
                context |-> get_conversation_context(history, limit)])
    /\ UNCHANGED <<auth, conv, proc>>

(* ============================== the clock ============================== *)
Tick(d) ==
    /\ ticks < MaxTicks
    /\ now' = now + d
    /\ ticks' = ticks + 1
    /\ Respond(NoResp)
    /\ UNCHANGED <<users, vLedger, rLedger, EMAIL_VERIFICATION_REQUIRED, bearers,
                   conv, proc>>

(* ========================== specifications ============================= *)
EmptyConv ==
    /\ sessions = {} /\ threads = {} /\ messages = {}
    /\ sseq = 0 /\ tseq = 0 /\ mseq = 0
    /\ tclock = 0 /\ mclock = 0

(* The state after start-up on an empty database. *)
Init ==
    /\ users = <<>>
    /\ email_verification_tokens = {} /\ password_reset_tokens = {}
    /\ vseq = 0 /\ rseq = 0
    /\ v_redeemed = [t \in VerificationTokenIds |-> 0]
    /\ r_redeemed = [t \in ResetTokenIds |-> 0]
    /\ EMAIL_VERIFICATION_REQUIRED \in BOOLEAN
    /\ now = 0 /\ ticks = 0
    /\ bearers = {}
    /\ EmptyConv
    /\ proc = [p \in Procs |-> Idle]
    /\ resp = NoResp

(* The token specifications start one reset-token lifetime before the      *)
(* verification tokens of registration (issued at time 0) expire, so that   *)
(* the clock reaches "exactly at expiry" and "past expiry" of both kinds.   *)
TokensStart == VerificationLifetime - ResetLifetime

(* The state after alice and bob registered: with verification required     *)
(* each holds the verification token registration generated.                *)
InitTokens ==
    /\ users = <<NewUser("alice", "a@x", "pw1"), NewUser("bob", "b@x", "pw1")>>
    /\ EMAIL_VERIFICATION_REQUIRED \in BOOLEAN
    /\ email_verification_tokens =
           IF EMAIL_VERIFICATION_REQUIRED
           THEN {TokenRow(1, 1, 0, EMAIL_VERIFICATION_TOKEN_EXPIRE_HOURS),
                 TokenRow(2, 2, 0, EMAIL_VERIFICATION_TOKEN_EXPIRE_HOURS)}
           ELSE {}
    /\ vseq = IF EMAIL_VERIFICATION_REQUIRED THEN 2 ELSE 0
    /\ password_reset_tokens = {} /\ rseq = 0
    /\ v_redeemed = [t \in VerificationTokenIds |-> 0]
    /\ r_redeemed = [t \in ResetTokenIds |-> 0]
    /\ now = TokensStart /\ ticks = 0
    /\ bearers = {}
    /\ EmptyConv
    /\ proc = [p \in Procs |-> Idle]
    /\ resp = NoResp

RegistrationStep(p) ==
    \/ \E u \in Usernames, e \in Emails, pw \in Passwords : RegisterCheck(p, u, e, pw)
    \/ RegisterCommit(p)
    \/ \E ok \in BOOLEAN : RegisterToken(p, ok)

LoginStep(p) ==
    \/ \E u \in Usernames, pw \in Passwords : Login(p, u, pw)
    \/ \E tk \in Presentable : Me(p, tk)

VerifyStep(p) ==
    \/ \E tok \in VerificationTokenIds : VerifyEmailLookup(p, tok)
    \/ VerifyEmailCommit(p)

ResendStep(p, emails) ==
    \/ \E e \in emails : ResendLookup(p, e)
    \/ \E ok \in BOOLEAN : ResendToken(p, ok)
    \/ PurgeVerificationTokens(p)

ResetStep(p, emails) ==
    \/ \E e \in emails : ForgotLookup(p, e)
    \/ \E ok \in BOOLEAN : ForgotCommit(p, ok)
    \/ \E tok \in ResetTokenIds : VerifyResetToken(p, tok)
    \/ \E tok \in ResetTokenIds, pw \in Passwords : ResetLookup(p, tok, pw)
    \/ ResetCommit(p)
    \/ PurgeResetTokens(p)

RedeemStep(p) ==
    \/ \E tok \in VerificationTokenIds : VerifyEmailLookup(p, tok)
    \/ VerifyEmailCommit(p)
    \/ \E tok \in ResetTokenIds, pw \in Passwords : ResetLookup(p, tok, pw)
    \/ ResetCommit(p)

(* Registration, two requests at a time, on an empty database. *)
Next == \E p \in Procs : RegistrationStep(p)

Spec == Init /\ [][Next]_vars

(* Registration, one request after the other, on a database whose insert of *)
(* the verification token can fail.                                         *)
NextRegister ==
    \E p \in SeqProcs :
        \/ RegistrationStep(p)
        \/ RegisterTokenFails(p)
        \/ \E u \in Usernames, pw \in Passwords : Login(p, u, pw)

SpecRegister == Init /\ [][NextRegister]_vars

(* Register, verify, log in, call /auth/me: one request after the other. *)
NextAccount ==
    \/ \E p \in SeqProcs : RegistrationStep(p) \/ VerifyStep(p) \/ LoginStep(p)
    \/ Tick(AccessLifetime)

SpecAccount == Init /\ [][NextAccount]_vars

(* The verification ledger, two requests at a time. *)
NextVerify ==
    \/ \E p \in Procs : VerifyStep(p) \/ ResendStep(p, Emails)
    \/ Tick(ResetLifetime)

SpecVerify == InitTokens /\ [][NextVerify]_vars

(* The reset ledger, two requests at a time. *)
NextReset ==
    \/ \E p \in Procs : ResetStep(p, Emails)
    \/ Tick(ResetLifetime)

SpecReset == InitTokens /\ [][NextReset]_vars

(* Both ledgers, one request after the other; new tokens are requested for  *)
(* alice's address, bob keeps the token of his registration.                *)
NextTokensSeq ==
    \/ \E p \in SeqProcs : VerifyStep(p) \/ ResendStep(p, {"a@x"}) \/ ResetStep(p, {"a@x"})
    \/ Tick(ResetLifetime)

SpecTokensSeq == InitTokens /\ [][NextTokensSeq]_vars

(* The state after alice and bob registered and each asked for a password   *)
(* reset: every user holds one verification and one reset token.            *)
InitRedeem ==
    /\ users = <<NewUser("alice", "a@x", "pw1"), NewUser("bob", "b@x", "pw1")>>
    /\ EMAIL_VERIFICATION_REQUIRED = TRUE
    /\ email_verification_tokens =
           {TokenRow(1, 1, 0, EMAIL_VERIFICATION_TOKEN_EXPIRE_HOURS),
            TokenRow(2, 2, 0, EMAIL_VERIFICATION_TOKEN_EXPIRE_HOURS)}
    /\ vseq = 2
    /\ password_reset_tokens =
           {TokenRow(1, 1, TokensStart, PASSWORD_RESET_TOKEN_EXPIRE_HOURS),
            TokenRow(2, 2, TokensStart, PASSWORD_RESET_TOKEN_EXPIRE_HOURS)}
    /\ rseq = 2
    /\ v_redeemed = [t \in VerificationTokenIds |-> 0]
    /\ r_redeemed = [t \in ResetTokenIds |-> 0]
    /\ now = TokensStart /\ ticks = 0
    /\ bearers = {}
    /\ EmptyConv
    /\ proc = [p \in Procs |-> Idle]
    /\ resp = NoResp

(* Redemption of the tokens of both ledgers, two requests at a time. *)
NextRedeem ==
    \/ \E p \in Procs : RedeemStep(p)
    \/ Tick(ResetLifetime)

SpecRedeem == InitRedeem /\ [][NextRedeem]_vars

(* The state after alice and bob registered, verified and logged in. *)
VerifiedUser(username, email, password) ==
    [NewUser(username, email, password) EXCEPT !.is_verified = TRUE]

InitConv ==
    /\ users = <<VerifiedUser("alice", "a@x", "pw1"), VerifiedUser("bob", "b@x", "pw1")>>
    /\ EMAIL_VERIFICATION_REQUIRED = TRUE
    /\ email_verification_tokens =
           MarkUsed({TokenRow(1, 1, 0, EMAIL_VERIFICATION_TOKEN_EXPIRE_HOURS),
                     TokenRow(2, 2, 0, EMAIL_VERIFICATION_TOKEN_EXPIRE_HOURS)}, {1, 2}, 0)
    /\ vseq = 2
    /\ password_reset_tokens = {} /\ rseq = 0
    /\ v_redeemed = [t \in VerificationTokenIds |-> IF t \in {1, 2} THEN 1 ELSE 0]
    /\ r_redeemed = [t \in ResetTokenIds |-> 0]
    /\ now = 0 /\ ticks = 0
    /\ bearers = {create_token_for_user(users, 1, now),
                  create_token_for_user(users, 2, now)}
    /\ EmptyConv
    /\ proc = [p \in Procs |-> Idle]
    /\ resp = NoResp

Titles == {NULL, Some("client")}
AgentTypes == {Some("tutor")}

SessionStep(p, tokens) ==
    \/ \E tk \in tokens : CreateSession(p, tk, NULL)
    \/ \E tk \in tokens : ListSessions(p, tk)
    \/ \E tk \in tokens, sid \in SessionIds : GetSession(p, tk, sid)
    \/ \E tk \in tokens, sid \in SessionIds : DeleteSessionLookup(p, tk, sid)
    \/ DeleteSessionCommit(p)
    \/ \E tk \in tokens, sid \in SessionIds, a \in AgentTypes :
          UpdateSessionLookup(p, tk, sid, a)
    \/ UpdateSessionCommit(p)

ThreadStep(p, tokens) ==
    \/ \E tk \in tokens, sid \in SessionIds, t \in Titles :
          CreateThreadLookup(p, tk, sid, t)
    \/ CreateThreadCommit(p)
    \/ \E tk \in tokens, sid \in SessionIds : ListThreads(p, tk, sid)
    \/ \E tk \in tokens, tid \in ThreadIds : GetThread(p, tk, tid)
    \/ \E tk \in tokens, tid \in ThreadIds :
          UpdateThreadLookup(p, tk, tid, Some("client"))
    \/ UpdateThreadCommit(p)
    \/ \E tk \in tokens, tid \in ThreadIds : DeleteThreadLookup(p, tk, tid)
    \/ DeleteThreadCommit(p)

(* send_message; namings: the outcomes of the title generator's LLM call. *)
SendStep(p, tokens, cap, namings) ==
    \/ \E tk \in tokens, tid \in ThreadIds : SendBegin(p, tk, tid, cap)
    \/ SendUserMessage(p)
    \/ \E named \in namings : SendTitle(p, named)
    \/ \E ok \in BOOLEAN : SendReply(p, ok)

MessageStep(p, tokens) ==
    \/ SendStep(p, tokens, MaxMessages, {TRUE})
    \/ \E tk \in tokens, tid \in ThreadIds : GetThreadHistory(p, tk, tid)

(* The requests that write to the conversation store. *)
StoreStep(p, tokens) ==
    \/ \E tk \in tokens : CreateSession(p, tk, NULL)
    \/ \E tk \in tokens, sid \in SessionIds : DeleteSessionLookup(p, tk, sid)
    \/ DeleteSessionCommit(p)
    \/ \E tk \in tokens, sid \in SessionIds : CreateThreadLookup(p, tk, sid, NULL)
    \/ CreateThreadCommit(p)
    \/ \E tk \in tokens, tid \in ThreadIds : DeleteThreadLookup(p, tk, tid)
    \/ DeleteThreadCommit(p)
    \/ SendStep(p, tokens, MaxMessages, {TRUE})

(* Every conversation endpoint, one request after the other, by alice and   *)
(* by bob.                                                                  *)
NextConv ==
    \E p \in SeqProcs :
        SessionStep(p, bearers) \/ ThreadStep(p, bearers) \/ MessageStep(p, bearers)

SpecConv == InitConv /\ [][NextConv]_vars

(* The writing requests, two at a time. *)
NextStore == \E p \in Procs : StoreStep(p, bearers)

SpecStore == InitConv /\ [][NextStore]_vars

(* The state after alice, verified and logged in like bob, created two      *)
(* sessions and, in the first, an untitled thread and a titled one.         *)
InitChat ==
    /\ users = <<VerifiedUser("alice", "a@x", "pw1"), VerifiedUser("bob", "b@x", "pw1")>>
    /\ EMAIL_VERIFICATION_REQUIRED = TRUE
    /\ email_verification_tokens =
           MarkUsed({TokenRow(1, 1, 0, EMAIL_VERIFICATION_TOKEN_EXPIRE_HOURS),
                     TokenRow(2, 2, 0, EMAIL_VERIFICATION_TOKEN_EXPIRE_HOURS)}, {1, 2}, 0)
    /\ vseq = 2
    /\ password_reset_tokens = {} /\ rseq = 0
    /\ v_redeemed = [t \in VerificationTokenIds |-> IF t \in {1, 2} THEN 1 ELSE 0]
    /\ r_redeemed = [t \in ResetTokenIds |-> 0]
    /\ now = 0 /\ ticks = 0
    /\ bearers = {create_token_for_user(users, 1, now),
                  create_token_for_user(users, 2, now)}
    /\ sessions = {[id |-> 1, user_id |-> 1, agent_type |-> NULL, created_at |-> 1],
                   [id |-> 2, user_id |-> 1, agent_type |-> NULL, created_at |-> 2]}
    /\ threads = {[id |-> 1, session_id |-> 1, title |-> NULL, created_at |-> 1],
                  [id |-> 2, session_id |-> 1, title |-> Some("client"), created_at |-> 2]}
    /\ messages = {}
    /\ sseq = 2 /\ tseq = 2 /\ mseq = 0
    /\ tclock = 2 /\ mclock = 0
    /\ proc = [p \in Procs |-> Idle]
    /\ resp = NoResp

(* The reading requests on what the chat specifications store. *)
ReadStep(p, tokens) ==
    \/ \E tk \in tokens : ListSessions(p, tk)
    \/ \E tk \in tokens, sid \in SessionIds : ListThreads(p, tk, sid)
    \/ \E tk \in tokens, tid \in ThreadIds : GetThreadHistory(p, tk, tid)

(* Conversations in alice's threads, one request after the other; the title *)
(* generator's LLM call and the chat LLM call can each fail.                *)
NextChat ==
    \E p \in SeqProcs :
        SendStep(p, bearers, MaxChatMessages, BOOLEAN) \/ ReadStep(p, bearers)

SpecChat == InitChat /\ [][NextChat]_vars

(* The same requests, two at a time. *)
NextChatRace ==
    \E p \in Procs :
        SendStep(p, bearers, MaxChatMessages, BOOLEAN) \/ ReadStep(p, bearers)

SpecChatRace == InitChat /\ [][NextChatRace]_vars

(* Every conversation endpoint, one request after the other, called by      *)
(* alice and by clients without a token that verifies, on the sessions and  *)
(* threads alice has created.                                               *)
GateTokens == {tk \in bearers : tk.user_id = 1} \cup Unverifiable

NextGate ==
    \E p \in SeqProcs :
        SessionStep(p, GateTokens) \/ ThreadStep(p, GateTokens) \/ MessageStep(p, GateTokens)

SpecGate == InitChat /\ [][NextGate]_vars

(* send_message in alice's threads while PATCH /threads/thread/{id} writes   *)
(* titles, two requests at a time.                                          *)
NextNaming ==
    \E p \in Procs :
        \/ SendStep(p, bearers, MaxMessages, BOOLEAN)
        \/ \E tk \in bearers, tid \in ThreadIds :
              UpdateThreadLookup(p, tk, tid, Some("client"))
        \/ UpdateThreadCommit(p)

SpecNaming == InitChat /\ [][NextNaming]_vars

(* ThreadCreate.title: Field(None, max_length=50). *)
THREAD_TITLE_MAX_LENGTH == 50

(* Titles a client sends to PATCH /threads/thread/{id}: the body parameter   *)
(* is "str | None" without a length; none, 50 characters, 51 characters.    *)
PatchTitles ==
    {NULL,
     Some("aaaaaaaaaaaaaaaaaaaaaaaaaaaaaaaaaaaaaaaaaaaaaaaaaa"),
     Some("aaaaaaaaaaaaaaaaaaaaaaaaaaaaaaaaaaaaaaaaaaaaaaaaaaa")}

(* Titles written by PATCH and by send_message in alice's threads, one      *)
(* request after the other.                                                 *)
NextTitle ==
    \E p \in SeqProcs :
        \/ \E tk \in bearers, tid \in ThreadIds, t \in PatchTitles :
              UpdateThreadLookup(p, tk, tid, t)
        \/ UpdateThreadCommit(p)
        \/ SendStep(p, bearers, MaxMessages, BOOLEAN)
        \/ \E tk \in bearers, sid \in SessionIds : ListThreads(p, tk, sid)

SpecTitle == InitChat /\ [][NextTitle]_vars

(* The limits a caller passes to get_conversation_context: none, or 0 up to *)
(* one more than the messages a thread holds.                               *)
ContextLimits == {NULL} \cup {Some(k) : k \in 0 .. MaxContextLimit}

(* Conversations in alice's threads and calls of get_conversation_context   *)
(* on them, one request after the other.                                    *)
NextContext ==
    \E p \in SeqProcs :
        \/ SendStep(p, bearers, MaxChatMessages, {TRUE})
        \/ \E tid \in ThreadIds, limit \in ContextLimits :
              ConversationContext(p, tid, limit)

SpecContext == InitChat /\ [][NextContext]_vars

(* Password resets of alice and bob while alice's sessions and threads are  *)
(* stored and messages are sent, one request after the other.               *)
NextOwner ==
    \/ \E p \in SeqProcs :
          ResetStep(p, Emails) \/ SendStep(p, bearers, MaxMessages, {TRUE})
    \/ Tick(ResetLifetime)

SpecOwner == InitChat /\ [][NextOwner]_vars





(* The state after alice alone registered: "b@x" belongs to no user. *)
InitOneUser ==
    /\ users = <<NewUser("alice", "a@x", "pw1")>>
    /\ EMAIL_VERIFICATION_REQUIRED \in BOOLEAN
    /\ email_verification_tokens =
           IF EMAIL_VERIFICATION_REQUIRED
           THEN {TokenRow(1, 1, 0, EMAIL_VERIFICATION_TOKEN_EXPIRE_HOURS)}
           ELSE {}
    /\ vseq = IF EMAIL_VERIFICATION_REQUIRED THEN 1 ELSE 0
    /\ password_reset_tokens = {} /\ rseq = 0
    /\ v_redeemed = [t \in VerificationTokenIds |-> 0]
    /\ r_redeemed = [t \in ResetTokenIds |-> 0]
    /\ now = TokensStart /\ ticks = 0
    /\ bearers = {}
    /\ EmptyConv
    /\ proc = [p \in Procs |-> Idle]
    /\ resp = NoResp

(* Resend-verification and forgot-password for a registered and for an      *)
(* unregistered address, one request after the other.                       *)
NextEnumeration ==
    \/ \E p \in SeqProcs : VerifyStep(p) \/ ResendStep(p, Emails) \/ ResetStep(p, Emails)
    \/ Tick(ResetLifetime)

SpecEnumeration == InitOneUser /\ [][NextEnumeration]_vars

(* =============================== claims ================================ *)
(* The response just sent is that of a token consumer / of a token check. *)
ConsumeResponse == resp.op \in {"verify_email", "reset_password"}

TokenDecision == resp.op \in {"verify_email", "verify_reset_token", "reset_password"}

Redeemed(op, tok) == IF op = "verify_email" THEN v_redeemed[tok] ELSE r_redeemed[tok]

(* C2: when two requests redeem the same valid token at the same time, at   *)
(* most one of them succeeds: no verification token and no reset token is   *)
(* ever redeemed successfully twice.                                        *)
C2_AtMostOneConcurrentRedemption ==
    /\ \A t \in VerificationTokenIds : v_redeemed[t] <= 1
    /\ \A t \in ResetTokenIds : r_redeemed[t] <= 1

(* C3: with one request after the other, a token is consumed successfully   *)
(* at most once; the consume of a stored, unused, unexpired token succeeds; *)
(* and a consume of a token already redeemed fails with HTTP 400.           *)
C3_SingleUse ==
    /\ \A t \in VerificationTokenIds : v_redeemed[t] < 2
    /\ \A t \in ResetTokenIds : r_redeemed[t] < 2
    /\ ConsumeResponse =>
         /\ (resp.seen.stored /\ resp.seen.unused /\ resp.seen.ttl > 0)
                => resp.status = 200
         /\ (Redeemed(resp.op, resp.token) >= 1 /\ ~resp.seen.unused)
                => resp.status = 400

(* A reset token redeemed once was presented again and refused with 400,    *)
(* after a verification token had been redeemed too.                        *)
C3_Witness ==
    /\ resp.op = "reset_password" /\ resp.status = 400
    /\ resp.seen.stored /\ r_redeemed[resp.token] = 1
    /\ \E t \in VerificationTokenIds : v_redeemed[t] = 1

(* C4 as stated: verify_email_token, verify_reset_token and reset_password  *)
(* accept a token iff its record exists, used_at is null and                *)
(* now < expires_at.                                                        *)
C4_ValidityRuleStrict ==
    TokenDecision =>
        (resp.status = 200 <=>
            (resp.seen.stored /\ resp.seen.unused /\ resp.seen.ttl > 0))

(* C4: verify_email_token, verify_reset_token and reset_password accept a   *)
(* token iff its record exists, used_at is null and now <= expires_at: a    *)
(* token is rejected as expired only once now is later than expires_at.     *)
C4_ValidityRule ==
    TokenDecision =>
        (resp.status = 200 <=>
            (resp.seen.stored /\ resp.seen.unused /\ resp.seen.ttl >= 0))

(* An unused token was accepted at the very instant of its expires_at. *)
C4_Witness ==
    /\ resp.op = "reset_password" /\ resp.status = 200
    /\ resp.seen.unused /\ resp.seen.ttl = 0

ActiveResetTokens(uid) ==
    {r \in password_reset_tokens :
        r.user_id = uid /\ r.used_at = NULL /\ now < r.expires_at}

(* C5: every user has at most one reset token that is unused and unexpired, *)
(* also when two forgot-password requests for the user run concurrently.    *)
C5_AtMostOneActiveResetToken ==
    \A uid \in DOMAIN users : Cardinality(ActiveResetTokens(uid)) <= 1

UsersUnique ==
    \A i, j \in DOMAIN users :
        i # j => /\ users[i].username # users[j].username
                 /\ users[i].email # users[j].email

RegistrationRefusal ==
    /\ (resp'.op = "register" /\ resp'.status = 400) =>
          /\ users' = users
          /\ UsersByUsername(users, resp'.username) # {}
                \/ UsersByEmail(users, resp'.email) # {}
    /\ \A p \in Procs :
          (/\ proc[p].pc = "reg_commit" /\ proc'[p].pc # "reg_commit"
           /\ \/ UsersByUsername(users, proc[p].username) # {}
              \/ UsersByEmail(users, proc[p].email) # {})
          => (resp'.op = "register" /\ resp'.status = 400 /\ users' = users)
    /\ users' # users =>
          /\ Len(users') = Len(users) + 1
          /\ UsersByUsername(users, users'[Len(users')].username) = {}
          /\ UsersByEmail(users, users'[Len(users')].email) = {}

(* C6: no two stored users share a username or an email, also when the      *)
(* existence checks of two registrations interleave; a registration that    *)
(* reuses a stored username or email is answered 400 and stores no user.    *)
C6_Uniqueness == []UsersUnique /\ [][RegistrationRefusal]_vars

(* A registration passed both existence checks and was refused at commit,   *)
(* because the other registration committed in between.                     *)
C6_Witness ==
    /\ resp.op = "register" /\ resp.status = 400 /\ resp.via = "integrity"
    /\ Len(users) = 1

UsedImpliesVerified ==
    \A r \in email_verification_tokens :
        r.used_at # NULL => users[r.user_id].is_verified

VerificationStep ==
    resp'.op = "verify_email" =>
        IF resp'.status = 200
        THEN /\ users'[resp'.user_id].is_verified
             /\ \A r \in RowsOf(email_verification_tokens', resp'.token) :
                    r.used_at # NULL /\ r.user_id = resp'.user_id
        ELSE UNCHANGED <<users, email_verification_tokens>>

(* C7: every verification token whose used_at is set belongs to a user      *)
(* whose is_verified is true; a successful verify_email sets both in one    *)
(* step, and a failed one changes neither the tokens nor the users.         *)
C7_VerificationAtomic == []UsedImpliesVerified /\ [][VerificationStep]_vars

(* A verification succeeded while the other request was between its lookup  *)
(* and its commit.                                                          *)
C7_Witness ==
    /\ resp.op = "verify_email" /\ resp.status = 200
    /\ users[resp.user_id].is_verified
    /\ \E q \in Procs : proc[q].pc = "ve_commit"

ResetDone == resp.op = "reset_password" /\ resp.status = 200

OldPasswords == {pw \in Passwords : verify_password(pw, resp.old_hash)}

LoginOf(uid, pw) ==
    authenticate_user(users, EMAIL_VERIFICATION_REQUIRED, users[uid].username, pw)

(* C9 as stated: after reset-password(T, new) succeeds, login with the old  *)
(* password fails, login with the new password succeeds, and T is refused.  *)
C9_ResetFlowUnconditional ==
    ResetDone =>
        /\ \A pw \in OldPasswords : LoginOf(resp.user_id, pw) = 0
        /\ LoginOf(resp.user_id, resp.new_password) = resp.user_id
        /\ verify_reset_token(RowsOf(password_reset_tokens, resp.token), now) # "ok"

(* C9: after reset-password(T, new) succeeds, login with an old password    *)
(* different from new fails; login with new succeeds exactly when email     *)
(* verification is not required or the user is verified; and T, like every  *)
(* reset token redeemed before, is refused from then on.                    *)
C9_ResetFlow ==
    /\ ResetDone =>
          /\ \A pw \in OldPasswords :
                pw # resp.new_password => LoginOf(resp.user_id, pw) = 0
          /\ LoginOf(resp.user_id, resp.new_password) = resp.user_id
                <=> (~EMAIL_VERIFICATION_REQUIRED \/ users[resp.user_id].is_verified)
    /\ \A t \in ResetTokenIds :
          r_redeemed[t] >= 1 =>
              verify_reset_token(RowsOf(password_reset_tokens, t), now) # "ok"

(* A reset to a new password after which the new password logs in and the   *)
(* old one does not.                                                        *)
C9_Witness ==
    /\ ResetDone
    /\ LoginOf(resp.user_id, resp.new_password) = resp.user_id
    /\ \A pw \in OldPasswords : pw # resp.new_password /\ LoginOf(resp.user_id, pw) = 0

Registered(username, password) ==
    {uid \in DOMAIN users : /\ users[uid].username = username
                            /\ verify_password(password, users[uid].password)}

RegisterReturnsUser ==
    (resp.op = "register" /\ resp.status = 201) =>
        /\ resp.body.id \in DOMAIN users
        /\ resp.body.username = resp.username
        /\ users[resp.body.id].username = resp.username

LoginReturnsBearer ==
    (resp.op = "login" /\ resp.status = 200) =>
        /\ resp.token_type = "bearer"
        /\ resp.access_token.user_id \in Registered(resp.username, resp.password)
        /\ resp.access_token.sub = resp.username

MeReturnsUser ==
    (resp.op = "me" /\ resp.token \in bearers /\ now < resp.token.exp) =>
        /\ resp.status = 200
        /\ resp.body.id = resp.token.user_id
        /\ resp.body.username = resp.token.sub

ConvOps ==
    {"create_session", "list_sessions", "get_session", "delete_session",
     "update_session", "create_thread", "list_threads", "get_thread",
     "update_thread", "delete_thread", "send_message", "get_thread_history"}

(* C1: no request authenticated as A returns, changes or deletes a session, *)
(* thread or message owned by another user B; a request naming a resource   *)
(* of B ends in 403 or 404.                                                 *)
C1_OwnershipIsolation ==
    (resp.op \in ConvOps /\ resp.user # 0) =>
        /\ resp.owners \subseteq {resp.user}
        /\ resp.owner \notin {0, resp.user} => resp.status \in {403, 404}

(* C8: every session references a stored user, every thread a stored        *)
(* session and every message a stored thread, also while deletes interleave *)
(* with a create-thread or a send_message in flight.                        *)
C8_ReferentialIntegrity ==
    /\ \A x \in sessions : x.user_id \in DOMAIN users
    /\ \A x \in threads : SessionRows(x.session_id) # {}
    /\ \A m \in messages : ThreadRows(m.thread_id) # {}

(* A thread that held a message was deleted, session or thread, while a     *)
(* send_message to it was in flight.                                        *)
C8_Witness ==
    /\ resp.op \in {"delete_session", "delete_thread"} /\ resp.status = 204
    /\ \E q \in Procs :
          /\ proc[q].pc \in {"sm_title", "sm_reply"}
          /\ ThreadRows(proc[q].id) = {}
    /\ mseq >= 1 /\ messages = {}

MailRequest == resp.op \in {"forgot_password", "resend_verification"}

(* C11: POST /auth/forgot-password and POST /auth/resend-verification       *)
(* always answer 200, so that the status for the address of a registered    *)
(* user (verified or not, the mailer succeeding or failing) is the status   *)
(* for an address of no user.                                               *)
C11_NonEnumeration == MailRequest => resp.status = 200

(* A login with the right password of a user who is stored unverified,    *)
(* while verification is required.                                          *)
UnverifiedLogin ==
    /\ resp'.op = "login" /\ EMAIL_VERIFICATION_REQUIRED
    /\ \E uid \in Registered(resp'.username, resp'.password) : ~users[uid].is_verified

(* A login that cannot succeed: unknown username or wrong password. *)
BadLogin == resp'.op = "login" /\ Registered(resp'.username, resp'.password) = {}

LoginRefused(r) == r.status = 401 /\ r.detail = "Incorrect username or password"

LoginConflation ==
    /\ UnverifiedLogin => (bearers' = bearers /\ LoginRefused(resp'))
    /\ BadLogin => (bearers' = bearers /\ LoginRefused(resp'))

SendOk == resp.op = "send_message" /\ resp.status = 200

Roles(history) == [i \in 1 .. Len(history) |-> history[i].role]

(* C13: with one request after the other, a successful send_message to a    *)
(* thread of the caller that held n messages stores exactly two messages,   *)
(* the posted content with role user and then the LLM's reply with role     *)
(* assistant, and returns a history of n + 2 messages that ends with those  *)
(* two in that order; for n = 0 the roles are [user, assistant].            *)
C13_SendHistory ==
    SendOk =>
        LET h == resp.history
            n == Len(resp.history) IN
        /\ n = resp.held + 2
        /\ h[n - 1].id = resp.user_msg /\ h[n - 1].role = "user"
        /\ h[n - 1].content = "question"
        /\ h[n].id = resp.reply /\ h[n].role = "assistant"
        /\ h[n].content = "answer"
        /\ MessagesOf(h[n].thread_id) = {h[i] : i \in 1 .. n}
        /\ Cardinality(MessagesOf(h[n].thread_id)) = resp.held + 2
        /\ resp.held = 0 => Roles(h) = <<"user", "assistant">>

(* The second turn of a thread was answered: a history of four messages. *)
C13_Witness == SendOk /\ resp.held = 2 /\ Len(resp.history) = 4

TitleIn(rows, tid) == (CHOOSE x \in {y \in rows : y.id = tid} : TRUE).title

(* The request of p was at its LLM call and ended with status 500. *)
LlmFailed(p) ==
    /\ proc[p].pc = "sm_reply" /\ proc'[p].pc = "idle"
    /\ resp'.op = "send_message" /\ resp'.status = 500

(* The user message of p's request is stored, its thread holds that one     *)
(* message more than when the request began, and this step stored nothing.  *)
OnlyUserMessageStored(p) ==
    /\ \E m \in messages' :
          /\ m.id = proc[p].user_msg /\ m.thread_id = proc[p].id
          /\ m.role = "user" /\ m.content = "question"
    /\ Cardinality({m \in messages' : m.thread_id = proc[p].id}) = proc[p].held + 1
    /\ ~\E m \in messages' : m.thread_id = proc[p].id /\ m.id > proc[p].user_msg
    /\ messages' = messages

RestUntouched ==
    UNCHANGED <<users, sessions, threads, email_verification_tokens,
                password_reset_tokens>>

(* C14 as stated: when the LLM call of send_message fails, the request ends *)
(* with 500, its user message stays, no assistant message is stored, and    *)
(* everything else stored is as before the request: also the thread, whose  *)
(* title is the one the request loaded.                                     *)
C14_LlmFailureLeavesAllElse ==
    [][\A p \in SeqProcs :
          LlmFailed(p) =>
              /\ OnlyUserMessageStored(p) /\ RestUntouched
              /\ TitleIn(threads', proc[p].id) = proc[p].title]_vars

(* C14: when the LLM call of send_message fails, the request ends with 500, *)
(* its user message stays, no assistant message is stored, and everything   *)
(* else stored is as before the request, except that the first message to   *)
(* an untitled thread has given the thread a title, which stays.            *)
C14_LlmFailure ==
    [][\A p \in SeqProcs :
          LlmFailed(p) =>
              /\ OnlyUserMessageStored(p) /\ RestUntouched
              /\ \/ TitleIn(threads', proc[p].id) = proc[p].title
                 \/ /\ proc[p].title = NULL /\ proc[p].held = 0
                    /\ proc[p].naming # "none"
                    /\ TitleIn(threads', proc[p].id) = Some(proc[p].naming)]_vars

(* The LLM failed on the first message of a thread: the message is stored   *)
(* without a reply and the thread has been titled.                          *)
C14_Witness ==
    /\ resp.op = "send_message" /\ resp.status = 500
    /\ Cardinality(MessagesOf(1)) = 1 /\ TitleIn(threads, 1) # NULL
    /\ \A m \in MessagesOf(1) : m.role = "user"

(* The response of a registration whose verification mail was not sent. *)
MailFailedAtRegister ==
    /\ resp.op = "register" /\ "mailed" \in DOMAIN resp
    /\ resp.token # 0 /\ ~resp.mailed

(* C15: when the user has been committed and sending the verification mail  *)
(* fails, register still answers 201 with the created user, the user is     *)
(* stored with is_verified = false, and the verification token generated    *)
(* for it is stored and valid.                                              *)
C15_RegisterToleratesMailer ==
    MailFailedAtRegister =>
        /\ resp.status = 201
        /\ resp.body.id \in DOMAIN users
        /\ resp.body = UserOut(users, resp.body.id)
        /\ resp.body.username = resp.username /\ ~resp.body.is_verified
        /\ ~users[resp.body.id].is_verified
        /\ \E r \in RowsOf(email_verification_tokens, resp.token) :
              r.user_id = resp.body.id /\ r.used_at = NULL /\ now <= r.expires_at
        /\ verify_email_token_check(RowsOf(email_verification_tokens, resp.token), now)
              = "ok"

(* A registration was answered 201 although its mail failed, and its token  *)
(* verifies.                                                                *)
C15_Witness ==
    /\ MailFailedAtRegister /\ resp.status = 201
    /\ verify_email_token_check(RowsOf(email_verification_tokens, resp.token), now)
          = "ok"

(* p sends a request to a session, thread or message endpoint with tk. *)
RequestWith(p, tk) ==
    /\ proc[p].pc = "idle"
    /\ SessionStep(p, {tk}) \/ ThreadStep(p, {tk}) \/ MessageStep(p, {tk})

(* The request is answered 401 and is over: nothing stored has changed and  *)
(* no step of a handler (a write, an LLM call) is left to run.              *)
RejectedAtGate ==
    /\ resp'.op \in ConvOps /\ resp'.status = 401
    /\ UNCHANGED <<auth, conv, proc>>

(* C16: every request to a session, thread or message endpoint without a    *)
(* bearer token, or with one that fails verification (bad signature,        *)
(* expired), is answered 401 before any handler logic runs: nothing stored  *)
(* changes and the LLM is not called.                                       *)
C16_AuthenticationGate ==
    [][/\ \A p \in SeqProcs, tk \in Unverifiable : RequestWith(p, tk) => RejectedAtGate
       /\ (resp'.op \in ConvOps /\ resp'.status = 401) => RejectedAtGate]_vars

(* A send_message without a valid token was refused while the thread it     *)
(* names held messages.                                                     *)
C16_Witness ==
    /\ resp.op = "send_message" /\ resp.status = 401
    /\ messages # {} /\ threads # {}

SessionOps == {"get_session", "update_session", "delete_session"}

(* C17: get_session, update_session and delete_session look the session up  *)
(* and compare its owner before they change anything: the request fails     *)
(* with 404 exactly when no such session is stored and with 403 exactly     *)
(* when it is stored for another user, a failed request leaves sessions,    *)
(* threads and messages as they were, and a delete or update that goes on   *)
(* to its commit was made by the owner.                                     *)
C17_SessionChecks ==
    [][/\ (resp'.op \in SessionOps /\ resp'.user # 0 /\ proc' = proc) =>
             /\ resp'.status = 404 <=> resp'.owner = 0
             /\ resp'.status = 403 <=> resp'.owner \notin {0, resp'.user}
             /\ resp'.status \in {403, 404} => UNCHANGED <<sessions, threads, messages>>
       /\ \A p \in SeqProcs :
             (proc[p].pc = "idle" /\ proc'[p].pc \in {"ds_commit", "us_commit"}) =>
                 OwnerOfSession(proc'[p].id) = proc'[p].user]_vars

(* An update of another user's session was refused while that session,     *)
(* with a thread in it, is stored.                                          *)
C17_Witness ==
    /\ resp.op = "update_session" /\ resp.status = 403
    /\ \E x \in sessions :
          /\ x.user_id = resp.owner /\ x.user_id # resp.user
          /\ \E y \in threads : y.session_id = x.id

ContainerOps == {"create_thread", "send_message"}

SendPcs == {"sm_user", "sm_title", "sm_reply"}

Ascending(rows) ==
    \A i, j \in 1 .. Len(rows) : i < j => rows[i].created_at <= rows[j].created_at

Descending(rows) ==
    \A i, j \in 1 .. Len(rows) : i < j => rows[i].created_at >= rows[j].created_at

(* The rows in the order of their inserts: ids come from the table's        *)
(* sequence.                                                                *)
AppendOrder(rows) ==
    \A i, j \in 1 .. Len(rows) : i < j => rows[i].id < rows[j].id

(* The histories a response returns, a response reports as sent to the LLM  *)
(* and a request holds for its LLM call.                                    *)
Histories ==
    (IF "history" \in DOMAIN resp THEN {resp.history} ELSE {})
    \cup (IF "sent" \in DOMAIN resp THEN {resp.sent} ELSE {})
    \cup {proc[p].history : p \in {q \in Procs : proc[q].pc = "sm_reply"}}

(* The history a request holds for its LLM call is the thread's messages,   *)
(* its own user message among them.                                         *)
LlmInputIsThread ==
    \A p \in Procs :
        proc[p].pc = "sm_reply" =>
            LET h == proc[p].history IN
            /\ {h[i] : i \in 1 .. Len(h)} \subseteq MessagesOf(proc[p].id)
            /\ \E i \in 1 .. Len(h) : h[i].id = proc[p].user_msg

(* C19 as stated: histories are in non-decreasing created_at order, the LLM *)
(* gets that sequence, which is the order the messages were appended, and   *)
(* session and thread lists are in non-increasing created_at order.         *)
C19_AppendOrder ==
    /\ \A h \in Histories : Ascending(h) /\ AppendOrder(h)
    /\ LlmInputIsThread
    /\ "items" \in DOMAIN resp => Descending(resp.items)

(* C19: get_messages_for_thread returns a thread's messages in              *)
(* non-decreasing created_at order and send_message passes that sequence to *)
(* the LLM; list_sessions_for_user and list_threads_for_session return      *)
(* their items in non-increasing created_at order.  created_at is the start *)
(* of the inserting transaction, so the order is the order of appends only  *)
(* for requests that do not overlap.                                        *)
C19_CreatedAtOrder ==
    /\ \A h \in Histories : Ascending(h)
    /\ LlmInputIsThread
    /\ "items" \in DOMAIN resp => Descending(resp.items)

(* A send_message was answered whose LLM input held a message before one    *)
(* that was inserted earlier.                                               *)
C19_Witness ==
    /\ SendOk
    /\ \E i, j \in 1 .. Len(resp.sent) : i < j /\ resp.sent[i].id > resp.sent[j].id

(* The request of p fetched the history of its first message to a thread it *)
(* loaded untitled, and the title generator's LLM call failed.              *)
TitleGenerationFailed(p) ==
    /\ proc[p].pc = "sm_title"
    /\ proc[p].title = NULL
    /\ Cardinality(MessagesOf(proc[p].id)) = 1
    /\ SendTitle(p, FALSE)

(* The turn goes on: no response yet, the user message stays stored and the *)
(* request is at its LLM call.                                              *)
TurnNotBlocked(p) ==
    /\ resp' = NoResp
    /\ messages' = messages
    /\ \E m \in messages' : m.id = proc'[p].user_msg /\ m.role = "user"
    /\ proc'[p].pc = "sm_reply"

(* The LLM answers the request of p whose title generation failed: the      *)
(* normal response, with the user message and the reply in the history.     *)
AnsweredAfterFailedNaming(p) ==
    /\ resp'.op = "send_message" /\ resp'.status = 200
    /\ Len(resp'.history) = 2
    /\ resp'.history[1].id = proc[p].user_msg
    /\ resp'.history[2].role = "assistant"

(* C20 as stated: when the title generator fails on the first message of an *)
(* untitled thread the title stays empty, the user message stays saved and  *)
(* the request goes on to the LLM and returns its normal response.          *)
C20_FailedNamingLeavesUntitled ==
    [][\A p \in SeqProcs :
          /\ TitleGenerationFailed(p) =>
                 TitleIn(threads', proc[p].id) = NULL /\ TurnNotBlocked(p)
          /\ (proc[p].pc = "sm_reply" /\ proc[p].naming # "generated"
              /\ proc[p].title = NULL /\ proc[p].held = 0 /\ SendReply(p, TRUE)) =>
                 AnsweredAfterFailedNaming(p) /\ TitleIn(threads', proc[p].id) = NULL]_vars

(* C20: when the title generator fails on the first message of an untitled  *)
(* thread, generate_thread_name answers with its fallback name and the      *)
(* thread gets that title; the user message stays saved and the request     *)
(* goes on to the LLM and returns its normal response.                      *)
C20_FailedNamingFallsBack ==
    [][\A p \in SeqProcs :
          /\ TitleGenerationFailed(p) =>
                 /\ TitleIn(threads', proc[p].id) = Some("fallback")
                 /\ proc'[p].naming = "fallback"
                 /\ TurnNotBlocked(p)
          /\ (proc[p].pc = "sm_reply" /\ proc[p].naming # "generated"
              /\ proc[p].title = NULL /\ proc[p].held = 0 /\ SendReply(p, TRUE)) =>
                 /\ AnsweredAfterFailedNaming(p)
                 /\ TitleIn(threads', proc[p].id) = Some("fallback")]_vars

(* A first message was answered after its title generation failed, and the  *)
(* thread carries the fallback name.                                        *)
C20_Witness ==
    /\ SendOk /\ resp.held = 0 /\ resp.naming = "fallback"
    /\ \E y \in threads : y.id = resp.history[1].thread_id /\ y.title = Some("fallback")

(* The request of p writes the name of the title generator to its thread. *)
WritesGeneratedTitle(p) ==
    /\ proc[p].pc = "sm_title" /\ proc'[p].pc = "sm_reply"
    /\ proc'[p].naming # "none"

(* C21: send_message writes a generated title only when the saved message   *)
(* is the first message of the thread and the stored title is still empty;  *)
(* a title given at creation or set by PATCH, also by a PATCH that commits  *)
(* while the send_message is in progress, is never overwritten by a         *)
(* generated one.                                                           *)
C21_NamingGuard ==
    [][\A p \in Procs :
          WritesGeneratedTitle(p) =>
              /\ Cardinality(MessagesOf(proc[p].id)) = 1
              /\ TitleIn(threads, proc[p].id) = NULL]_vars

(* C22: in every reachable state each thread's title is null or at most 50  *)
(* characters long, whether given at creation, set by PATCH, generated or   *)
(* the fallback name.                                                       *)
C22_BoundedTitle ==
    \A x \in threads : x.title = NULL \/ Len(x.title[1]) <= THREAD_TITLE_MAX_LENGTH

(* A reset_password request with token tok passes its token check and goes  *)
(* on to its commit.                                                        *)
ResetPassesTokenCheck(tok) ==
    \E p \in Procs, pw \in Passwords :
        ResetLookup(p, tok, pw) /\ proc'[p].pc = "rp_commit"

(* C23: GET /auth/verify-reset-token answers that the token is valid        *)
(* exactly when a reset_password with that token in the same state passes   *)
(* its token check, and the call changes nothing: every reset token with    *)
(* its used_at, every verification token and every user with their password *)
(* are as before, so the token can still be consumed.                       *)
C23_ReadOnlyVerify ==
    [][\A tok \in ResetTokenIds :
          (resp'.op = "verify_reset_token" /\ resp'.token = tok) =>
              /\ UNCHANGED <<users, vLedger, rLedger, clock, bearers, conv, proc>>
              /\ resp'.status = 200 <=> ENABLED ResetPassesTokenCheck(tok)]_vars

(* A token was found valid by verify-reset-token while an earlier token of  *)
(* the ledger is used.                                                      *)
C23_Witness ==
    /\ resp.op = "verify_reset_token" /\ resp.status = 200
    /\ \E r \in password_reset_tokens : r.token = resp.token /\ r.used_at = NULL
    /\ \E r \in password_reset_tokens : r.used_at # NULL

(* The last k rows as (role, content) pairs. *)
LastPairs(rows, k) ==
    [i \in 1 .. k |-> [role |-> rows[Len(rows) - k + i].role,
                       content |-> rows[Len(rows) - k + i].content]]

(* C24: for a thread with n messages and a limit >= 0,                      *)
(* get_conversation_context returns the last min(limit, n) messages of the  *)
(* chronological history as (role, content) pairs in that order, so limit 0 *)
(* yields the empty list; with no limit it returns all n.                   *)
C24_ContextTruncation ==
    resp.op = "get_conversation_context" =>
        LET n == Len(resp.rows) IN
        resp.context =
            LastPairs(resp.rows,
                      IF resp.limit = NULL THEN n
                      ELSE IF resp.limit[1] < n THEN resp.limit[1] ELSE n)

(* The rows of ledger whose token is no longer in after. *)
RemovedRows(ledger, after) == {r \in ledger : \A x \in after : x.token # r.token}

(* A step that removed rows from ledger removed exactly those expired at    *)
(* time t and left the others as they were.                                 *)
PurgedExactly(ledger, after, t) ==
    RemovedRows(ledger, after) # {} =>
        /\ \A r \in after : r.expires_at >= t
        /\ after = {r \in ledger : r.expires_at >= t}

(* C25: a run of delete_expired_tokens at time now leaves no token of its   *)
(* ledger with expires_at < now, keeps every token with expires_at >= now,  *)
(* used or unused, unchanged, and changes no user and no token of the other *)
(* ledger.                                                                  *)
C25_PurgeExact ==
    [][/\ PurgedExactly(email_verification_tokens, email_verification_tokens', now)
       /\ PurgedExactly(password_reset_tokens, password_reset_tokens', now)
       /\ RemovedRows(email_verification_tokens, email_verification_tokens') # {} =>
              UNCHANGED <<users, rLedger, vseq, v_redeemed>>
       /\ RemovedRows(password_reset_tokens, password_reset_tokens') # {} =>
              UNCHANGED <<users, vLedger, rseq, r_redeemed>>]_vars

(* Reset tokens were purged while a used one whose expiry has not passed    *)
(* is still stored.                                                         *)
C25_Witness ==
    /\ \E t \in 1 .. rseq : RowsOf(password_reset_tokens, t) = {}
    /\ \E r \in password_reset_tokens : r.used_at # NULL /\ r.expires_at >= now

(* C26: whenever POST /auth/register answers 400 or 500, also when storing  *)
(* the verification token fails after the user insert, the stored users are *)
(* the same as before the request: the answering step adds none and the     *)
(* request has not inserted one in an earlier step.                         *)
C26_FailedRegistrationNoTrace ==
    [][(resp'.op = "register" /\ resp'.status \in {400, 500}) =>
           /\ users' = users
           /\ \A p \in SeqProcs :
                 (proc[p].pc = "reg_token" /\ proc'[p].pc = "idle") =>
                     proc[p].user_id \notin DOMAIN users']_vars

(* This step issued a verification token. *)
VerificationTokenIssued == vseq' = vseq + 1

(* C27: issuing a verification token, at registration or by                 *)
(* resend-verification, adds one row and changes no stored verification     *)
(* token; a stored, unused, unexpired verification token is consumed        *)
(* successfully whatever other tokens the user holds or has used, also when *)
(* the user is verified already.                                            *)
C27_NotSuperseded ==
    [][/\ VerificationTokenIssued =>
              /\ email_verification_tokens \subseteq email_verification_tokens'
              /\ Cardinality(email_verification_tokens') =
                     Cardinality(email_verification_tokens) + 1
       /\ (resp'.op = "verify_email" /\ resp'.seen.stored /\ resp'.seen.unused
           /\ resp'.seen.ttl > 0) =>
              /\ resp'.status = 200
              /\ users'[resp'.user_id].is_verified
              /\ v_redeemed'[resp'.token] = 1]_vars

(* A user holding two verification tokens consumed the second one after the *)
(* first had verified them.                                                 *)
C27_Witness ==
    /\ resp.op = "verify_email" /\ resp.status = 200
    /\ \E r \in email_verification_tokens :
          /\ r.user_id = resp.user_id /\ r.token # resp.token
          /\ r.used_at # NULL /\ v_redeemed[r.token] = 1

(* The reset token T of the response, before and after the step. *)
TokenBefore(tok) == TheRow(RowsOf(password_reset_tokens, tok))

FetchesHistory(p) == proc[p].pc = "sm_title" /\ proc'[p].pc = "sm_reply"

(* C29: under any interleaving of send_message requests, a request that     *)
(* sees a history of length exactly 1 after saving its user message sees    *)
(* its own message as the only message of the thread, stored messages stay  *)
(* stored, so no other request of the thread sees length 1, before, after   *)
(* or at the same time; the title generator is invoked only by such a       *)
(* request and only on a thread no generator has named: at most once per    *)
(* thread.                                                                  *)
C29_NamingAtMostOnce ==
    [][/\ messages \subseteq messages'
       /\ \A p \in Procs :
             FetchesHistory(p) =>
                 /\ Len(proc'[p].history) = 1 =>
                        /\ {m.id : m \in MessagesOf(proc[p].id)} = {proc[p].user_msg}
                        /\ \A q \in Procs \ {p} :
                              (proc[q].pc = "sm_reply" /\ proc[q].id = proc[p].id) =>
                                  Len(proc[q].history) # 1
                 /\ proc'[p].naming # "none" =>
                        /\ Len(proc'[p].history) = 1
                        /\ TitleIn(threads, proc[p].id) = NULL
                        /\ \A q \in Procs \ {p} :
                              (proc[q].pc = "sm_reply" /\ proc[q].id = proc[p].id) =>
                                  proc[q].naming = "none"]_vars

(* Two requests to the untitled thread are at their LLM call: one saw       *)
(* history length 1 and had the generator name the thread, the other saw    *)
(* both messages and did not.                                               *)
C29_Witness ==
    \E p, q \in Procs :
        /\ proc[p].pc = "sm_reply" /\ proc[q].pc = "sm_reply"
        /\ proc[p].id = proc[q].id
        /\ proc[p].title = NULL /\ proc[q].title = NULL
        /\ Len(proc[p].history) = 1 /\ proc[p].naming # "none"
        /\ Len(proc[q].history) = 2 /\ proc[q].naming = "none"

WithRole(tid, role) == Cardinality({m \in MessagesOf(tid) : m.role = role})

=============================================================================
